---- MODULE Spec2Model ----
(***************************************************************************)
(* A model of django-action-framework (daf): the parametrized, trapped,    *)
(* transactional run of an action over its target rows, the error          *)
(* contextualizer, the bulk view's successful/failed report, and the       *)
(* action registry.                                                        *)
(*                                                                         *)
(* The record store, Django's ValidationError, python-args' decorators and *)
(* django-args' queryset loader are collaborators of the repository; they  *)
(* are modelled at the places where the repository calls them.             *)
(***************************************************************************)
EXTENDS Integers, Sequences, FiniteSets, TLC

VARIABLES
    db,              \* the persisted (committed) record store: row -> value
    holder,          \* row locks: row -> the request holding it (0: free)
    pc,              \* request -> its position in the pipeline
    action,          \* request -> the action class it runs
    objects,         \* request -> the resolved target collection (a sequence)
    idx,             \* request -> index of the next target to attempt
    txn,             \* request -> rows written in its open transaction
    trapped_errors,  \* request -> the per-run list of trapped exceptions
    results,         \* request -> the values returned by sub-invocations
    attempted,       \* request -> history: the targets attempted, in order
    lock_count,      \* request -> history: lock acquisitions in this run
    db_before,       \* request -> history: the store when the run began
    outcome,         \* request -> what the action's func returned or raised
    response,        \* request -> what the bulk view rendered
    dismissed,       \* request -> history: the run whose dismiss link led here
    classes,         \* the action classes that exist (class objects)
    _registry,       \* daf.registry._registry: uri -> action class
    definitions,     \* history: the number of class statements executed
    last_op,         \* history: the last class statement or registration
    permissions,     \* the rows of django.contrib.auth's Permission table
    installed,       \* history: the last run of permissions.install
    interface_classes, \* the interface classes that exist, in definition order
    interfaces,      \* action class -> its own interfaces attribute, if any
    built,           \* the interfaces as_interface() has built a view for
    last_interface_op, \* history: the last interface statement or build
    filtered,        \* history: the last call of registry.actions().filter
    view_response,   \* history: the last request to an admin action view
    detail_call      \* history: the last request to a REST detail action

run_vars == <<db, holder, pc, action, objects, idx, txn, trapped_errors,
              results, attempted, lock_count, db_before, outcome, response,
              dismissed>>
reg_vars == <<classes, _registry, definitions, last_op>>
perm_vars == <<permissions, installed>>
iface_vars == <<interface_classes, interfaces, built, last_interface_op>>
req_vars == <<filtered, view_response, detail_call>>
vars == <<run_vars, reg_vars, perm_vars, iface_vars, req_vars>>

----------------------------------------------------------------------------
(* Bounds *)

NumRows == 3
Rows == 1..NumRows
MaxDefinitions == 2
Procs == {1, 2}

Range(s) == {s[i] : i \in 1..Len(s)}

\* Every sequence of distinct rows: what a queryset can evaluate to.
Collections ==
    {s \in UNION {[1..n -> Rows] : n \in 0..NumRows} :
        \A i, j \in 1..Len(s) : i # j => s[i] # s[j]}

----------------------------------------------------------------------------
(* Exceptions.  An exception is a record                                   *)
(*   cls        its Python class                                           *)
(*   shape      "single": has .message, error_list is [self]               *)
(*              "list"  : has no .message, error_list is explicit          *)
(*              "both"  : has .message and an explicit error_list          *)
(*   message    the message when it is a string (a sequence of tokens)     *)
(*   inner      <<e>> when the message is itself the exception e           *)
(*   error_list the explicit error list                                    *)
(*   arg_call   the _arg_call attribute (present = hasattr)                *)

NoArgCall ==
    [present |-> FALSE, parametrize_arg |-> "None",
     parametrize_arg_vals |-> <<>>, parametrize_arg_val |-> 0]

ParametrizedCall(parametrize_arg, vals, val) ==
    [present |-> TRUE, parametrize_arg |-> parametrize_arg,
     parametrize_arg_vals |-> vals, parametrize_arg_val |-> val]

Exception(cls, message) ==
    [cls |-> cls, shape |-> "single", message |-> message, inner |-> <<>>,
     error_list |-> <<>>, arg_call |-> NoArgCall]

IsValidationError(e) ==
    e.cls \in {"ValidationError", "ContextualizedValidationError"}

\* hasattr(e, 'message')
HasMessage(e) == IsValidationError(e) /\ e.shape \in {"single", "both"}

\* e.error_list of a ValidationError
ErrorList(e) == IF e.shape = "single" THEN <<e>> ELSE e.error_list

RECURSIVE Extend(_)
\* error_list.extend(message.error_list) for every member of a list
Extend(es) ==
    IF es = <<>> THEN <<>> ELSE ErrorList(Head(es)) \o Extend(Tail(es))

\* ValidationError('text')
ValidationErrorStr(message) == Exception("ValidationError", message)

\* ValidationError(exc): Django copies message of a ValidationError, takes the
\* error list of a list-shaped one, and keeps any other exception as the
\* message.  Custom attributes (_arg_call) are not carried over.
ValidationError(exc) ==
    IF IsValidationError(exc)
    THEN IF HasMessage(exc)
         THEN [cls |-> "ValidationError", shape |-> "single",
               message |-> exc.message, inner |-> exc.inner,
               error_list |-> <<>>, arg_call |-> NoArgCall]
         ELSE [cls |-> "ValidationError", shape |-> "list",
               message |-> <<>>, inner |-> <<>>,
               error_list |-> Extend(exc.error_list), arg_call |-> NoArgCall]
    ELSE [cls |-> "ValidationError", shape |-> "single",
          message |-> <<>>, inner |-> <<exc>>,
          error_list |-> <<>>, arg_call |-> NoArgCall]

\* ValidationError([exc, ...])
ValidationErrorList(excs) ==
    [cls |-> "ValidationError", shape |-> "list", message |-> <<>>,
     inner |-> <<>>,
     error_list |->
        Extend([i \in 1..Len(excs) |->
                   IF IsValidationError(excs[i]) THEN excs[i]
                   ELSE ValidationError(excs[i])]),
     arg_call |-> NoArgCall]

\* str(exc) of an exception that has a message
Str(exc) == IF exc.inner # <<>> THEN exc.inner[1].message ELSE exc.message

----------------------------------------------------------------------------
(* The error contextualizer (contrib.py) *)

render_arg_val(arg_val) == "MyModel object (" \o ToString(arg_val) \o ")"

render_contextualized_error_message(arg_val, error) ==
    <<render_arg_val(arg_val), " - ">> \o Str(ValidationError(error))

\* "if hasattr(e, 'message') and hasattr(e.message, '_arg_call'): e = e.message"
Unwrap(e) ==
    IF HasMessage(e) /\ e.inner # <<>> /\ e.inner[1].arg_call.present
    THEN e.inner[1] ELSE e

\* "hasattr(e, '_arg_call') and e._arg_call.parametrize_arg"
IsParametrized(e) ==
    e.arg_call.present /\ e.arg_call.parametrize_arg # "None"

UnwrappedErrors(self) ==
    [i \in 1..Len(ErrorList(self)) |-> Unwrap(ErrorList(self)[i])]

ParametrizedErrorSeq(self) ==
    SelectSeq(UnwrappedErrors(self), LAMBDA e : IsParametrized(e))

unparametrized_errors(self) ==
    SelectSeq(UnwrappedErrors(self), LAMBDA e : ~IsParametrized(e))

\* self.parametrized_vals: assigned at every parametrized error, so the
\* last one seen decides.
parametrized_vals(self) ==
    LET es == ParametrizedErrorSeq(self)
    IN  IF es = <<>> THEN <<>>
        ELSE es[Len(es)].arg_call.parametrize_arg_vals

\* self.parametrized_errors[arg_val]
parametrized_errors(self, arg_val) ==
    SelectSeq(ParametrizedErrorSeq(self),
              LAMBDA e : e.arg_call.parametrize_arg_val = arg_val)

RECURSIVE FirstOccurrences(_, _)
FirstOccurrences(s, seen) ==
    IF s = <<>> THEN <<>>
    ELSE IF Head(s) \in seen THEN FirstOccurrences(Tail(s), seen)
         ELSE <<Head(s)>> \o FirstOccurrences(Tail(s), seen \cup {Head(s)})

\* The keys of self.parametrized_errors, in insertion order.
ParametrizedKeys(self) ==
    LET es == ParametrizedErrorSeq(self)
    IN  FirstOccurrences(
            [i \in 1..Len(es) |-> es[i].arg_call.parametrize_arg_val], {})

\* Faulty variant: the prefix is decided by the number of errors of the target.
ContextualizedGroup_by_error_count(self, arg_val) ==
    LET errors == parametrized_errors(self, arg_val)
    IN  IF Len(errors) > 1
        THEN [i \in 1..Len(errors) |->
                [ValidationErrorStr(
                    render_contextualized_error_message(arg_val, errors[i]))
                 EXCEPT !.arg_call = errors[i].arg_call]]
        ELSE errors

ContextualizedGroup(self, arg_val) ==
    LET errors == parametrized_errors(self, arg_val)
    IN  IF Len(parametrized_vals(self)) > 1
        THEN [i \in 1..Len(errors) |->
                [ValidationErrorStr(
                    render_contextualized_error_message(arg_val, errors[i]))
                 EXCEPT !.arg_call = errors[i].arg_call]]
        ELSE errors

RECURSIVE ContextualizedGroups(_, _)
ContextualizedGroups(self, keys) ==
    IF keys = <<>> THEN <<>>
    ELSE ContextualizedGroup(self, Head(keys))
            \o ContextualizedGroups(self, Tail(keys))

\* The error_list that contextualize_error_list leaves on self.
contextualize_error_list(self) ==
    unparametrized_errors(self)
        \o ContextualizedGroups(self, ParametrizedKeys(self))

\* ContextualizedValidationError(exc), as raise_contextualized_error builds it.
ContextualizedValidationError(message) ==
    LET base == [ValidationError(message) EXCEPT
                    !.cls = "ContextualizedValidationError",
                    !.arg_call = IF message.arg_call.present
                                 THEN message.arg_call ELSE NoArgCall]
        new == contextualize_error_list(base)
    IN  IF new = <<base>> THEN base
        ELSE [base EXCEPT
                !.shape = IF HasMessage(base) THEN "both" ELSE "list",
                !.error_list = new]

\* raise_contextualized_error: "except Exception as exc: raise error_class(exc)"
raise_contextualized_error(exc) == ContextualizedValidationError(exc)

----------------------------------------------------------------------------
(* The bulk view (views.py) *)

HasFailedTarget(error) ==
    error.arg_call.present /\ error.arg_call.parametrize_arg_val # 0

\* ObjectsViewInterface.get_successful_and_failed_objects over the form's
\* error data
get_successful_and_failed_objects(errors) ==
    LET hits == SelectSeq(errors, LAMBDA e : HasFailedTarget(e))
        failed_objects ==
            {hits[i].arg_call.parametrize_arg_val : i \in 1..Len(hits)}
        all_objects ==
            IF hits = <<>> THEN {}
            ELSE Range(hits[Len(hits)].arg_call.parametrize_arg_vals)
        successful_objects == all_objects \ failed_objects
    IN  IF all_objects # {}
        THEN [present |-> TRUE,
              successful_objects |-> successful_objects,
              failed_objects |-> failed_objects,
              dismiss_failures_url |->
                  successful_objects # {} /\ failed_objects # {}]
        ELSE [present |-> FALSE, successful_objects |-> {},
              failed_objects |-> {}, dismiss_failures_url |-> FALSE]

----------------------------------------------------------------------------
(* Action classes and their wrappers (actions.py) *)

\* ObjectAction.select_for_update = ['self'], and the disabled setting None
select_for_update_default == [is_none |-> FALSE, of |-> <<"self">>]
select_for_update_none == [is_none |-> TRUE, of |-> <<>>]

\* select_for_update = []: a lock list that names nothing
select_for_update_empty == [is_none |-> FALSE, of |-> <<>>]

\* ObjectAction and ObjectsAction classes with either setting, and a plain
\* ModelAction, which has no select_for_update and whose callable iterates
\* over the objects itself.
ActionClasses ==
    [kind : {"ObjectAction", "ObjectsAction"},
     select_for_update : {select_for_update_default, select_for_update_none}]
    \cup {[kind |-> "ModelAction", select_for_update |-> select_for_update_none]}

\* Faulty variant: the wrapper never opens a transaction.
wrapper_without_atomic(cls) ==
    IF cls.kind = "ObjectAction"
    THEN <<"raise_trapped_errors", "first_objects", "qset", "parametrize",
           "trap_errors", "attach_error_metadata">>
    ELSE <<"first_objects", "qset", "attach_error_metadata">>

\* Faulty variant: the ObjectAction wrapper leaves out trap_errors.
wrapper_without_trap_errors(cls) ==
    LET arg_decs == IF ~cls.select_for_update.is_none
                    THEN <<"transaction.atomic">> ELSE <<>>
    IN  IF cls.kind = "ObjectAction"
        THEN arg_decs \o <<"raise_trapped_errors", "first_objects", "qset",
                           "parametrize", "attach_error_metadata">>
        ELSE IF cls.kind = "ObjectsAction"
        THEN arg_decs \o <<"first_objects", "qset", "attach_error_metadata">>
        ELSE <<"attach_error_metadata">>

\* Faulty variant: every wrapper traps the errors of its sub-invocations.
wrapper_trapping_everywhere(cls) ==
    LET arg_decs == IF ~cls.select_for_update.is_none
                    THEN <<"transaction.atomic">> ELSE <<>>
    IN  IF cls.kind = "ObjectAction"
        THEN arg_decs \o <<"raise_trapped_errors", "first_objects", "qset",
                           "parametrize", "trap_errors",
                           "attach_error_metadata">>
        ELSE IF cls.kind = "ObjectsAction"
        THEN arg_decs \o <<"first_objects", "qset", "trap_errors",
                           "attach_error_metadata">>
        ELSE <<"trap_errors", "attach_error_metadata">>

\* Faulty variant: the transaction is opened only when there is something
\* to lock ("if cls.select_for_update:").
wrapper_atomic_when_locking(cls) ==
    LET arg_decs == IF cls.select_for_update.of # <<>>
                    THEN <<"transaction.atomic">> ELSE <<>>
    IN  IF cls.kind = "ObjectAction"
        THEN arg_decs \o <<"raise_trapped_errors", "first_objects", "qset",
                           "parametrize", "trap_errors",
                           "attach_error_metadata">>
        ELSE IF cls.kind = "ObjectsAction"
        THEN arg_decs \o <<"first_objects", "qset", "attach_error_metadata">>
        ELSE <<"attach_error_metadata">>

\* The decorators of cls.wrapper, outermost first.
wrapper(cls) ==
    LET arg_decs == IF ~cls.select_for_update.is_none
                    THEN <<"transaction.atomic">> ELSE <<>>
    IN  IF cls.kind = "ObjectAction"
        THEN arg_decs \o <<"raise_trapped_errors", "first_objects", "qset",
                           "parametrize", "trap_errors",
                           "attach_error_metadata">>
        ELSE IF cls.kind = "ObjectsAction"
        THEN arg_decs \o <<"first_objects", "qset", "attach_error_metadata">>
        ELSE <<"attach_error_metadata">>

Wraps(cls, decorator) == decorator \in Range(wrapper(cls))

\* Faulty variant: select_for_update is not handed to the queryset.
LocksRows_never(cls) == FALSE

\* The queryset loader's side of select_for_update: the rows of the
\* queryset are locked when the list names something to lock; None and an
\* empty list opt out of locking.
qset_select_for_update(select_for_update) ==
    ~select_for_update.is_none /\ select_for_update.of # <<>>

\* djarg.qset(..., select_for_update=cls.select_for_update): whether the
\* queryset of 'objects' is evaluated FOR UPDATE.
LocksRows(cls) == qset_select_for_update(cls.select_for_update)

\* Faulty variant: only the first row of the queryset is locked.
select_for_update_rows_first(cls, objs) ==
    IF LocksRows(cls) /\ objs # <<>> THEN {objs[1]} ELSE {}

\* The rows the evaluation of the queryset locks: all of 'objects'.
select_for_update_rows(cls, objs) ==
    IF LocksRows(cls) THEN Range(objs) ELSE {}

\* The UpdateMyField action's object_arg
object_arg == "my_model"

----------------------------------------------------------------------------
(* The callable.  What one invocation on one target does is an input:      *)
(*   ok                  writes the row and returns it                     *)
(*   ValueError          a validator raises before any write               *)
(*   IntegrityError      writes the row, then a later write raises         *)
(*   ValidationError     raises ValidationError('invalid')                 *)
(*   ValidationErrorList raises ValidationError(['list', 'error'])         *)

Behaviours ==
    {"ok", "ValueError", "IntegrityError", "ValidationError",
     "ValidationErrorList"}

WritesRow(b) == b \in {"ok", "IntegrityError"}

Raised(b) ==
    CASE b = "ValueError" -> Exception("ValueError", <<"Cannot update">>)
      [] b = "IntegrityError" -> Exception("IntegrityError", <<"duplicate key">>)
      [] b = "ValidationError" -> ValidationErrorStr(<<"invalid">>)
      [] OTHER -> ValidationErrorList(<<ValidationErrorStr(<<"list">>),
                                        ValidationErrorStr(<<"error">>)>>)

\* attach_error_metadata: "exc._arg_call = copy.copy(arg.call())"
attach_error_metadata(exc, call) == [exc EXCEPT !.arg_call = call]

\* Faulty variant: the call names only the current value as its values.
CurrentCall_of_one_value(cls, vals, val) ==
    IF Wraps(cls, "parametrize")
    THEN ParametrizedCall(object_arg, <<val>>, val)
    ELSE [NoArgCall EXCEPT !.present = TRUE]

\* arg.call() while the callable runs: under arg.parametrize it names the
\* parametrized argument, all its values and the current one.
CurrentCall(cls, vals, val) ==
    IF Wraps(cls, "parametrize")
    THEN ParametrizedCall(object_arg, vals, val)
    ELSE [NoArgCall EXCEPT !.present = TRUE]

----------------------------------------------------------------------------
(* Outcomes of the action's func *)

NoException == Exception("None", <<>>)
NoOutcome == [kind |-> "none", exc |-> NoException, value |-> <<>>]
Return(value) == [kind |-> "return", exc |-> NoException, value |-> value]
Raise(exc) == [kind |-> "raise", exc |-> exc, value |-> <<>>]

\* Faulty variant: a single trapped error is wrapped in an aggregate too.
raise_trapped_errors_always_aggregates(trapped, value) ==
    IF Len(trapped) >= 1 THEN Raise(ValidationErrorList(trapped))
    ELSE Return(value)

\* Faulty variant: without errors only the last result is returned.
raise_trapped_errors_returns_last(trapped, value) ==
    IF Len(trapped) > 1 THEN Raise(ValidationErrorList(trapped))
    ELSE IF Len(trapped) = 1 THEN Raise(trapped[1])
    ELSE IF value = <<>> THEN Return(value)
    ELSE Return(<<value[Len(value)]>>)

\* raise_trapped_errors, after the yield
raise_trapped_errors(trapped, value) ==
    IF Len(trapped) > 1 THEN Raise(ValidationErrorList(trapped))
    ELSE IF Len(trapped) = 1 THEN Raise(trapped[1])
    ELSE Return(value)

NoContext == get_successful_and_failed_objects(<<>>)
NoResponse == [status |-> "none", errors |-> <<>>, context |-> NoContext]

----------------------------------------------------------------------------
(* Action definitions and the registry (actions.py, registry.py).          *)
(* Identifiers are sequences of characters.                                *)

WordChars == {"a", "b", "c", "f", "g", "h", "i", "_", "0"}

\* re.match(r'\w+', s): s begins with at least one word character.
MatchesWord(s) == Len(s) >= 1 /\ s[1] \in WordChars

MaxCodenameLength == 100

\* A name so long that the permission codename exceeds its limit.
LongName == [i \in 1..MaxCodenameLength |-> "a"]

AppLabels == {<<"a">>, <<"a", "_", "b">>, <<>>}
Names == {<<"c">>, <<"b", "_", "c">>, <<"*">>, <<"c", "*">>, LongName}

\* The parameters of the callable "def my_func(arg1)", and what a class can
\* declare as its object_arg / objects_arg ("None": not declared).
FuncParameters == {"arg1"}
ObjectArgs == {"None", "invalid", "arg1"}

\* What a class statement declares.  abstract is the class's own
\* declaration (cls.__dict__), the only thing is_abstract looks at;
\* object_arg stands for objects_arg in an ObjectsAction.
ClassDict(kind, app_label, name, abstract, unregistered, callable, model, arg_name) ==
    [kind |-> kind, app_label |-> app_label, name |-> name,
     abstract |-> abstract, unregistered |-> unregistered,
     callable |-> callable, model |-> model, object_arg |-> arg_name]

\* Plain actions with every app_label and name, plain actions without a
\* callable, and record-bound actions with or without model and with every
\* object argument.
ClassDicts ==
    {ClassDict("Action", l, n, a, u, TRUE, FALSE, "None") :
        l \in AppLabels, n \in Names, a \in BOOLEAN, u \in BOOLEAN}
    \cup {ClassDict("Action", <<"a">>, <<"c">>, a, u, FALSE, FALSE, "None") :
        a \in BOOLEAN, u \in BOOLEAN}
    \cup {ClassDict("ModelAction", <<"a">>, <<"c">>, FALSE, u, TRUE, m, "None") :
        u \in BOOLEAN, m \in BOOLEAN}
    \cup {ClassDict(k, <<"a">>, <<"c">>, FALSE, u, TRUE, m, o) :
        k \in {"ObjectAction", "ObjectsAction"}, u \in BOOLEAN,
        m \in BOOLEAN, o \in ObjectArgs}

NoClass ==
    [id |-> 0, kind |-> "Action", app_label |-> <<>>, name |-> <<>>,
     abstract |-> TRUE, unregistered |-> TRUE, callable |-> FALSE,
     model |-> FALSE, object_arg |-> "None"]

\* Action.uri
uri(cls) == cls.app_label \o <<".">> \o cls.name

\* Action.permission_codename
permission_codename(cls) ==
    cls.app_label \o <<"_">> \o cls.name
        \o <<"_", "a", "c", "t", "i", "o", "n">>

\* Faulty variant: abstract is looked up as an attribute, which finds
\* Action.abstract = True on every class that does not declare it.
is_abstract_by_lookup(cls) == TRUE

\* Action.is_abstract
is_abstract(cls) == cls.abstract

\* Action.check_class_definition: the first definition_error, or "None"
Action_check_class_definition(cls) ==
    IF ~cls.callable THEN "AttributeError: callable"
    ELSE IF ~MatchesWord(cls.name) THEN "AttributeError: name"
    ELSE IF ~MatchesWord(cls.app_label) THEN "AttributeError: app_label"
    ELSE IF Len(permission_codename(cls)) > MaxCodenameLength
    THEN "AttributeError: permission_codename"
    ELSE "None"

\* ModelAction.check_class_definition
ModelAction_check_class_definition(cls) ==
    IF Action_check_class_definition(cls) # "None"
    THEN Action_check_class_definition(cls)
    ELSE IF ~cls.model THEN "AttributeError: model"
    ELSE "None"

\* Faulty variant: the declared argument is not looked up in the signature.
ObjectAction_check_without_signature(cls) ==
    IF ModelAction_check_class_definition(cls) # "None"
    THEN ModelAction_check_class_definition(cls)
    ELSE IF cls.object_arg = "None" THEN "AttributeError: object_arg"
    ELSE "None"

\* ObjectAction.check_class_definition, and ObjectsAction's, which is the
\* same with objects_arg
ObjectAction_check_class_definition(cls) ==
    IF ModelAction_check_class_definition(cls) # "None"
    THEN ModelAction_check_class_definition(cls)
    ELSE IF cls.object_arg = "None" THEN "AttributeError: object_arg"
    ELSE IF cls.object_arg \notin FuncParameters
    THEN "AttributeError: object_arg not an argument to callable"
    ELSE "None"

\* Faulty variant: every class gets the base class's checks only.
check_class_definition_of_base(cls) == Action_check_class_definition(cls)

\* cls.check_class_definition(), resolved by the kind of the class
check_class_definition(cls) ==
    IF cls.kind = "Action" THEN Action_check_class_definition(cls)
    ELSE IF cls.kind = "ModelAction"
    THEN ModelAction_check_class_definition(cls)
    ELSE ObjectAction_check_class_definition(cls)

\* Faulty variant: any class whose uri is taken is refused, the same class too.
_register_action_refuses_same(reg, cls) ==
    IF uri(cls) \in DOMAIN reg
    THEN [error |-> "RuntimeError", registry |-> reg]
    ELSE [error |-> "None",
          registry |-> [u \in DOMAIN reg \cup {uri(cls)} |->
                           IF u = uri(cls) THEN cls ELSE reg[u]]]

\* Faulty variant: no duplicate check, the later class replaces the earlier.
_register_action_overwrites(reg, cls) ==
    [error |-> "None",
     registry |-> [u \in DOMAIN reg \cup {uri(cls)} |->
                      IF u = uri(cls) THEN cls ELSE reg[u]]]

\* registry._register_action(cls) on the mapping reg: the error it raises
\* ("None" when it returns) and the mapping it leaves.
_register_action(reg, cls) ==
    IF uri(cls) \in DOMAIN reg /\ reg[uri(cls)] # cls
    THEN [error |-> "RuntimeError", registry |-> reg]
    ELSE [error |-> "None",
          registry |-> [u \in DOMAIN reg \cup {uri(cls)} |->
                           IF u = uri(cls) THEN cls ELSE reg[u]]]

Op(op, cls, error, registered) ==
    [op |-> op, cls |-> cls, error |-> error, registered |-> registered,
     registry_before |-> _registry]

\* A class statement: ActionMeta.__new__ creates the class object, checks a
\* concrete class and registers a concrete, not unregistered one.  When
\* either step raises, the class statement binds no class.
DefineAction(class_dict) ==
    /\ definitions < MaxDefinitions
    /\ UNCHANGED <<run_vars, perm_vars, iface_vars, req_vars>>
    /\ definitions' = definitions + 1
    /\ LET cls == [id |-> definitions + 1,
                   kind |-> class_dict.kind,
                   app_label |-> class_dict.app_label,
                   name |-> class_dict.name,
                   abstract |-> class_dict.abstract,
                   unregistered |-> class_dict.unregistered,
                   callable |-> class_dict.callable,
                   model |-> class_dict.model,
                   object_arg |-> class_dict.object_arg]
           error == IF is_abstract(cls) THEN "None"
                    ELSE check_class_definition(cls)
           registers == ~is_abstract(cls) /\ error = "None"
                            /\ ~cls.unregistered
           registered == _register_action(_registry, cls)
       IN  IF registers
           THEN /\ _registry' = registered.registry
                /\ classes' = IF registered.error = "None"
                              THEN classes \cup {cls} ELSE classes
                /\ last_op' = Op("class", cls, registered.error, TRUE)
           ELSE /\ _registry' = _registry
                /\ classes' = IF error = "None"
                              THEN classes \cup {cls} ELSE classes
                /\ last_op' = Op("class", cls, error, FALSE)

\* _register_action called again with a class the registry already holds
\* (a module that registers its classes is imported twice).
RegisterAgain(cls) ==
    /\ cls \in classes
    /\ uri(cls) \in DOMAIN _registry
    /\ _registry[uri(cls)] = cls
    /\ LET registered == _register_action(_registry, cls)
       IN  /\ _registry' = registered.registry
           /\ last_op' = Op("register", cls, registered.error, TRUE)
    /\ UNCHANGED <<classes, definitions>>
    /\ UNCHANGED <<run_vars, perm_vars, iface_vars, req_vars>>

RegInit ==
    /\ classes = {}
    /\ _registry = [u \in {} |-> NoClass]
    /\ definitions = 0
    /\ last_op = [op |-> "none", cls |-> NoClass, error |-> "None",
                  registered |-> FALSE,
                  registry_before |-> [u \in {} |-> NoClass]]

----------------------------------------------------------------------------
(* Action permissions (permissions.py).  A Permission row is a record       *)
(* [id, codename, content_type, name]; (content_type, codename) is unique.  *)

\* The content type of daf.models.ActionPermission, and another one
action_permission_ctype == "daf.actionpermission"
other_ctype == "auth.user"

MaxPermissionNameLength == 255

\* action_class.display_name.lower(): the name with spaces for underscores
display_name_lower(cls) ==
    [i \in 1..Len(cls.name) |->
        IF cls.name[i] = "_" THEN " " ELSE cls.name[i]]

\* permissions._get_permission_name
_get_permission_name(action_class) ==
    LET name == <<"Can perform \"">> \o display_name_lower(action_class)
                    \o <<"\" action">>
    IN  SubSeq(name, 1, IF Len(name) < MaxPermissionNameLength
                        THEN Len(name) ELSE MaxPermissionNameLength)

\* daf.registry.actions(): the values of _registry in insertion order, which
\* is the order in which the classes were defined.
RECURSIVE ById(_)
ById(S) ==
    IF S = {} THEN <<>>
    ELSE LET first == CHOOSE c \in S : \A d \in S : c.id <= d.id
         IN  <<first>> \o ById(S \ {first})

actions(reg) == ById({reg[u] : u \in DOMAIN reg})

\* The id the table gives a new row: one that no row has.
NewId(perms) ==
    CHOOSE i \in 1..(Cardinality(perms) + 1) :
        /\ \A p \in perms : p.id # i
        /\ \A j \in 1..(i - 1) : \E p \in perms : p.id = j

\* Permission.objects.update_or_create(codename=, content_type=,
\* defaults={'name': }): the table it leaves and the id of the row
update_or_create(perms, codename, content_type, name) ==
    LET found == {p \in perms : /\ p.codename = codename
                                /\ p.content_type = content_type}
    IN  IF found # {}
        THEN LET p == CHOOSE q \in found : TRUE
             IN  [id |-> p.id,
                  permissions |->
                      (perms \ {p}) \cup {[p EXCEPT !.name = name]}]
        ELSE [id |-> NewId(perms),
              permissions |->
                  perms \cup {[id |-> NewId(perms), codename |-> codename,
                               content_type |-> content_type,
                               name |-> name]}]

\* The loop of install over the action classes
RECURSIVE UpdateActionPermissions(_, _, _)
UpdateActionPermissions(action_classes, perms, permission_ids) ==
    IF action_classes = <<>>
    THEN [permissions |-> perms, permission_ids |-> permission_ids]
    ELSE LET permission ==
                 update_or_create(
                     perms, permission_codename(Head(action_classes)),
                     action_permission_ctype,
                     _get_permission_name(Head(action_classes)))
         IN  UpdateActionPermissions(
                 Tail(action_classes), permission.permissions,
                 permission_ids \cup {permission.id})

\* Faulty variant: permissions that no action backs are left in the table.
install_without_delete(reg, perms) ==
    UpdateActionPermissions(actions(reg), perms, {}).permissions

\* permissions.install on the registry reg and the table perms: the table
\* its transaction commits
install(reg, perms) ==
    LET updated == UpdateActionPermissions(actions(reg), perms, {})
    IN  {p \in updated.permissions :
            ~(/\ p.content_type = action_permission_ctype
              /\ p.id \notin updated.permission_ids)}

\* The migration ends and runs install.
Install ==
    /\ permissions' = install(_registry, permissions)
    /\ installed' = [present |-> TRUE, registry |-> _registry,
                     permissions_before |-> permissions, error |-> "None"]
    /\ UNCHANGED <<run_vars, reg_vars, iface_vars, req_vars>>

\* Faulty variant: the pass runs outside a transaction, so the rows it
\* wrote before the failure stay.
install_failing_without_atomic(reg, perms, k) ==
    UpdateActionPermissions(SubSeq(actions(reg), 1, k), perms, {}).permissions

\* permissions.install when the database raises after k permissions have
\* been written (in the next update_or_create, or in the delete): the
\* exception leaves "with transaction.atomic()", which rolls back.
install_failing(reg, perms, k) == perms

\* The migration runs install and the pass fails part-way.
InstallFails(k) ==
    /\ k \in 1..Len(actions(_registry))
    /\ permissions' = install_failing(_registry, permissions, k)
    /\ installed' = [present |-> TRUE, registry |-> _registry,
                     permissions_before |-> permissions,
                     error |-> "DatabaseError"]
    /\ UNCHANGED <<run_vars, reg_vars, iface_vars, req_vars>>

\* A new deployment: the process starts with an empty registry, the table
\* stays as it is.
Restart ==
    /\ definitions > 0
    /\ classes' = {}
    /\ _registry' = [u \in {} |-> NoClass]
    /\ definitions' = 0
    /\ last_op' = [op |-> "none", cls |-> NoClass, error |-> "None",
                   registered |-> FALSE,
                   registry_before |-> [u \in {} |-> NoClass]]
    /\ UNCHANGED <<run_vars, perm_vars, iface_vars, req_vars>>

\* Before the first migration the table holds a permission of another
\* content type whose codename an action permission can have too.
PermInit ==
    /\ permissions =
          {[id |-> 1, codename |-> <<"a", "_", "c", "_", "a", "c", "t", "i",
                                     "o", "n">>,
            content_type |-> other_ctype, name |-> <<"Can act">>]}
    /\ installed = [present |-> FALSE, registry |-> [u \in {} |-> NoClass],
                    permissions_before |-> {}, error |-> "None"]

----------------------------------------------------------------------------
(* The run of an action's func for one request *)

\* No dismiss link led to this request.
NoDismissed ==
    [present |-> FALSE, objects |-> {}, failed |-> {},
     failed_objects |-> {}, successful_objects |-> {}]

RunInit ==
    /\ db = [r \in Rows |-> "old"]
    /\ holder = [r \in Rows |-> 0]
    /\ pc = [p \in Procs |-> "idle"]
    /\ action = [p \in Procs |->
                    [kind |-> "ObjectAction",
                     select_for_update |-> select_for_update_default]]
    /\ objects = [p \in Procs |-> <<>>]
    /\ idx = [p \in Procs |-> 1]
    /\ txn = [p \in Procs |-> {}]
    /\ trapped_errors = [p \in Procs |-> <<>>]
    /\ results = [p \in Procs |-> <<>>]
    /\ attempted = [p \in Procs |-> <<>>]
    /\ lock_count = [p \in Procs |-> 0]
    /\ db_before = [p \in Procs |-> [r \in Rows |-> "old"]]
    /\ outcome = [p \in Procs |-> NoOutcome]
    /\ response = [p \in Procs |-> NoResponse]
    /\ dismissed = [p \in Procs |-> NoDismissed]

\* The func is entered: transaction.atomic opens the transaction (when it is
\* in the wrapper), raise_trapped_errors creates the empty list, and the
\* objects argument is resolved to a lazy queryset.
Enter(p, cls, objs) ==
    /\ action' = [action EXCEPT ![p] = cls]
    /\ objects' = [objects EXCEPT ![p] = objs]
    /\ idx' = [idx EXCEPT ![p] = 1]
    /\ txn' = [txn EXCEPT ![p] = {}]
    /\ trapped_errors' = [trapped_errors EXCEPT ![p] = <<>>]
    /\ results' = [results EXCEPT ![p] = <<>>]
    /\ attempted' = [attempted EXCEPT ![p] = <<>>]
    /\ lock_count' = [lock_count EXCEPT ![p] = 0]
    /\ db_before' = [db_before EXCEPT ![p] = db]
    /\ outcome' = [outcome EXCEPT ![p] = NoOutcome]
    /\ response' = [response EXCEPT ![p] = NoResponse]
    /\ pc' = [pc EXCEPT ![p] = "qset"]
    /\ UNCHANGED <<reg_vars, perm_vars, iface_vars, req_vars>>
    /\ UNCHANGED <<db, holder>>

\* A request arrives at the bulk view with its target rows.
Request(p, cls, objs) ==
    /\ pc[p] = "idle"
    /\ Enter(p, cls, objs)
    /\ dismissed' = [dismissed EXCEPT ![p] = NoDismissed]

\* arg.parametrize starts iterating the queryset, which evaluates it once:
\* SELECT ... FOR UPDATE over the whole target set when the action locks.
\* The statement waits while another transaction holds one of the rows.
EvaluateQuerySet(p) ==
    /\ pc[p] = "qset"
    /\ UNCHANGED <<reg_vars, perm_vars, iface_vars, req_vars>>
    /\ IF LocksRows(action[p])
       THEN LET rows == select_for_update_rows(action[p], objects[p])
            IN  /\ \A r \in rows : holder[r] = 0
                /\ holder' = [r \in Rows |->
                                IF r \in rows THEN p ELSE holder[r]]
                /\ lock_count' = [lock_count EXCEPT ![p] = @ + 1]
       ELSE UNCHANGED <<holder, lock_count>>
    /\ pc' = [pc EXCEPT ![p] = "parametrize"]
    /\ UNCHANGED <<db, action, objects, idx, txn, trapped_errors, results,
                   attempted, db_before, outcome, response, dismissed>>

\* One invocation of the callable, on objects[idx], behaving as b.  Inside
\* transaction.atomic a write stays in the transaction; without it the write
\* is committed at once.  An exception gets the call attached
\* (attach_error_metadata); trap_errors appends it to trapped_errors and the
\* loop goes on, otherwise it propagates out of the func.
SubInvocation(p, b) ==
    /\ pc[p] = "parametrize"
    /\ UNCHANGED <<reg_vars, perm_vars, iface_vars, req_vars>>
    /\ idx[p] <= Len(objects[p])
    /\ LET cls == action[p]
           val == objects[p][idx[p]]
           exc == attach_error_metadata(
                      Raised(b), CurrentCall(cls, objects[p], val))
       IN  /\ attempted' = [attempted EXCEPT ![p] = Append(@, val)]
           /\ IF WritesRow(b) /\ Wraps(cls, "transaction.atomic")
              THEN txn' = [txn EXCEPT ![p] = @ \cup {val}]
              ELSE UNCHANGED txn
           /\ IF WritesRow(b) /\ ~Wraps(cls, "transaction.atomic")
              THEN db' = [db EXCEPT ![val] = "new"]
              ELSE UNCHANGED db
           /\ IF b = "ok"
              THEN /\ results' = [results EXCEPT ![p] = Append(@, val)]
                   /\ idx' = [idx EXCEPT ![p] = @ + 1]
                   /\ UNCHANGED <<trapped_errors, outcome, pc>>
              ELSE IF Wraps(cls, "trap_errors")
              THEN /\ trapped_errors' =
                          [trapped_errors EXCEPT ![p] = Append(@, exc)]
                   /\ idx' = [idx EXCEPT ![p] = @ + 1]
                   /\ UNCHANGED <<results, outcome, pc>>
              ELSE /\ outcome' = [outcome EXCEPT ![p] = Raise(exc)]
                   /\ pc' = [pc EXCEPT ![p] = "exit_atomic"]
                   /\ UNCHANGED <<results, trapped_errors, idx>>
    /\ UNCHANGED <<holder, action, objects, lock_count, db_before, response,
                   dismissed>>

\* Every target has been attempted: raise_trapped_errors resumes after its
\* yield and reconciles the trapped errors into one outcome.
ExitTrappedErrors(p) ==
    /\ pc[p] = "parametrize"
    /\ UNCHANGED <<reg_vars, perm_vars, iface_vars, req_vars>>
    /\ idx[p] > Len(objects[p])
    /\ outcome' = [outcome EXCEPT ![p] =
                      IF Wraps(action[p], "raise_trapped_errors")
                      THEN raise_trapped_errors(trapped_errors[p], results[p])
                      ELSE Return(results[p])]
    /\ pc' = [pc EXCEPT ![p] = "exit_atomic"]
    /\ UNCHANGED <<db, holder, action, objects, idx, txn, trapped_errors,
                   results, attempted, lock_count, db_before, response,
                   dismissed>>

\* transaction.atomic exits: rollback when an exception passes through it,
\* commit otherwise.  Either way the transaction's row locks are released.
ExitAtomic(p) ==
    /\ pc[p] = "exit_atomic"
    /\ UNCHANGED <<reg_vars, perm_vars, iface_vars, req_vars>>
    /\ IF Wraps(action[p], "transaction.atomic") /\ outcome[p].kind = "return"
       THEN db' = [r \in Rows |-> IF r \in txn[p] THEN "new" ELSE db[r]]
       ELSE UNCHANGED db
    /\ txn' = [txn EXCEPT ![p] = {}]
    /\ holder' = [r \in Rows |-> IF holder[r] = p THEN 0 ELSE holder[r]]
    /\ pc' = [pc EXCEPT ![p] = "respond"]
    /\ UNCHANGED <<action, objects, idx, trapped_errors, results, attempted,
                   lock_count, db_before, outcome, response, dismissed>>

\* The bulk view: an exception leaves the interface's wrapper as a
\* ContextualizedValidationError, its error_list is added to the form, and
\* the context reports the successful and the failed objects.
Respond(p) ==
    /\ pc[p] = "respond"
    /\ UNCHANGED <<reg_vars, perm_vars, iface_vars, req_vars>>
    /\ response' = [response EXCEPT ![p] =
          IF outcome[p].kind = "raise"
          THEN LET errors ==
                       ErrorList(raise_contextualized_error(outcome[p].exc))
               IN  [status |-> "form_invalid", errors |-> errors,
                    context |-> get_successful_and_failed_objects(errors)]
          ELSE [status |-> "success", errors |-> <<>>,
                context |-> NoContext]]
    /\ pc' = [pc EXCEPT ![p] = "done"]
    /\ UNCHANGED <<db, holder, action, objects, idx, txn, trapped_errors,
                   results, attempted, lock_count, db_before, outcome,
                   dismissed>>

\* Faulty variant: the link carries the failed objects.
Dismiss_with_failed_objects(p, objs) ==
    /\ pc[p] = "done"
    /\ response[p].context.dismiss_failures_url
    /\ Range(objs) = response[p].context.failed_objects
    /\ Enter(p, action[p], objs)
    /\ dismissed' = [dismissed EXCEPT ![p] =
          [present |-> TRUE,
           objects |-> Range(objects[p]),
           failed |-> Range(objects[p]) \ Range(results[p]),
           failed_objects |-> response[p].context.failed_objects,
           successful_objects |-> response[p].context.successful_objects]]

\* The dismiss link: the same action is requested again with the successful
\* objects of the failed run as its targets, in whatever order the new
\* queryset yields them.
Dismiss(p, objs) ==
    /\ pc[p] = "done"
    /\ response[p].context.dismiss_failures_url
    /\ Range(objs) = response[p].context.successful_objects
    /\ Enter(p, action[p], objs)
    /\ dismissed' = [dismissed EXCEPT ![p] =
          [present |-> TRUE,
           objects |-> Range(objects[p]),
           failed |-> Range(objects[p]) \ Range(results[p]),
           failed_objects |-> response[p].context.failed_objects,
           successful_objects |-> response[p].context.successful_objects]]

----------------------------------------------------------------------------
(* Interfaces.  An interface class is bound to an action class through its *)
(* action attribute; InterfaceMeta attaches it to the action's interfaces  *)
(* mapping when the class statement runs, and as_interface() checks and    *)
(* builds it when URL patterns are collected.                              *)

MaxInterfaces == 2

\* The action classes interfaces are bound to: the two library bases, a
\* plain action, a record-bound action, and a subclass of the latter.
InterfaceActions ==
    {"Action", "ModelAction", "NonModelAction", "GrantStaffAccess",
     "GrantSuperuserAccess"}

\* The base class of each of them.
ActionBase(a) ==
    CASE a = "ModelAction" -> "Action"
      [] a = "NonModelAction" -> "Action"
      [] a = "GrantStaffAccess" -> "ModelAction"
      [] a = "GrantSuperuserAccess" -> "GrantStaffAccess"
      [] OTHER -> "object"

\* Their class statements: the library bases declare abstract = True.
InterfaceActionClass(a) ==
    ClassDict(IF a \in {"Action", "NonModelAction"} THEN "Action"
              ELSE "ModelAction",
              <<"a">>, <<"c">>, a \in {"Action", "ModelAction"}, TRUE, TRUE,
              a \notin {"Action", "NonModelAction"}, "None")

\* issubclass(action, daf.actions.ModelAction)
RECURSIVE IsModelAction(_)
IsModelAction(a) ==
    IF a = "ModelAction" THEN TRUE
    ELSE IF a \notin InterfaceActions THEN FALSE
    ELSE IsModelAction(ActionBase(a))

\* The interface classes of the library that user interfaces derive from,
\* with the namespace and type they declare.
InterfaceBases ==
    {[kind |-> "Interface", namespace |-> "", type |-> "interface"],
     [kind |-> "ViewInterface", namespace |-> "", type |-> "view"],
     [kind |-> "ModelViewInterface", namespace |-> "", type |-> "model_view"],
     [kind |-> "ModelViewInterface", namespace |-> "admin",
      type |-> "model_view"]}

\* What an interface class statement declares: its base and its action
\* ("None": the action attribute is left at Interface.action = None).
InterfaceClassDicts ==
    {[base |-> b, action |-> a, permission_required |-> b.namespace = "admin"] :
        b \in InterfaceBases, a \in InterfaceActions \cup {"None"}}

NoInterface ==
    [id |-> 0, kind |-> "Interface", namespace |-> "", type |-> "interface",
     action |-> "None", permission_required |-> FALSE]

\* Interface.uri
Interface_uri(cls) ==
    IF cls.namespace # "" THEN cls.namespace \o "." \o cls.type ELSE cls.type

\* The attribute lookup action.interfaces on the class attributes ifs: the
\* class's own mapping, or else the one its nearest base holds.
RECURSIVE GetInterfaces(_, _)
GetInterfaces(ifs, a) ==
    IF ifs[a].own THEN ifs[a].mapping
    ELSE GetInterfaces(ifs, ActionBase(a))

\* InterfaceMeta.__new__ after type.__new__: the class attributes it
\* leaves.  The assignment gives cls.action a mapping of its own.
InterfaceMeta_new(ifs, cls) ==
    IF cls.action # "None" /\ ~is_abstract(InterfaceActionClass(cls.action))
    THEN [ifs EXCEPT ![cls.action] =
            [own |-> TRUE,
             mapping |->
                [u \in DOMAIN GetInterfaces(ifs, cls.action)
                        \cup {Interface_uri(cls)} |->
                    IF u = Interface_uri(cls) THEN cls
                    ELSE GetInterfaces(ifs, cls.action)[u]]]]
    ELSE ifs

\* Faulty variant: every interface passes its definition check.
check_interface_definition_passing(cls) == "None"

\* check_interface_definition: the error it raises, or "None".
\* ModelViewInterface asks issubclass(cls.action, ModelAction), which
\* itself raises for action = None.
check_interface_definition(cls) ==
    IF cls.kind # "ModelViewInterface" THEN "None"
    ELSE IF cls.action = "None" THEN "TypeError"
    ELSE IF ~IsModelAction(cls.action) THEN "AttributeError"
    ELSE "None"

\* build_interface: Interface leaves it to its subclasses.
build_interface(cls) ==
    IF cls.kind = "Interface" THEN "NotImplementedError" ELSE "None"

\* Interface.as_interface: the error raised by the check or by the build.
\* DetailAction.as_interface replaces it and makes the DRF action without
\* either; it reads cls.action.name.
as_interface(cls) ==
    IF cls.kind = "DetailAction"
    THEN IF cls.action = "None" THEN "AttributeError" ELSE "None"
    ELSE IF check_interface_definition(cls) # "None"
    THEN check_interface_definition(cls)
    ELSE build_interface(cls)

InterfaceOp(op, cls, error) ==
    [op |-> op, cls |-> cls, error |-> error, interfaces_before |-> interfaces]

\* An interface class statement.
DefineInterface(class_dict) ==
    /\ Len(interface_classes) < MaxInterfaces
    /\ LET cls == [id |-> Len(interface_classes) + 1,
                   kind |-> class_dict.base.kind,
                   namespace |-> class_dict.base.namespace,
                   type |-> class_dict.base.type,
                   action |-> class_dict.action,
                   permission_required |-> class_dict.permission_required]
       IN /\ interface_classes' = Append(interface_classes, cls)
          /\ interfaces' = InterfaceMeta_new(interfaces, cls)
          /\ last_interface_op' = InterfaceOp("class", cls, "None")
    /\ UNCHANGED <<built>>
    /\ UNCHANGED <<run_vars, reg_vars, perm_vars, req_vars>>

\* cls.as_interface(), as urls.get_url_patterns and the admin's get_urls
\* call it: a view is built only when the check passes.
AsInterface(cls) ==
    /\ cls \in Range(interface_classes)
    /\ last_interface_op' = InterfaceOp("as_interface", cls, as_interface(cls))
    /\ built' = IF as_interface(cls) = "None" THEN built \cup {cls} ELSE built
    /\ UNCHANGED <<interface_classes, interfaces>>
    /\ UNCHANGED <<run_vars, reg_vars, perm_vars, req_vars>>

\* Action.interfaces = {} is the one mapping that exists before any
\* interface is declared.
InterfaceInit ==
    /\ interface_classes = <<>>
    /\ interfaces = [a \in InterfaceActions |->
                        [own |-> a = "Action", mapping |-> [u \in {} |-> NoInterface]]]
    /\ built = {}
    /\ last_interface_op = InterfaceOp("None", NoInterface, "None")

----------------------------------------------------------------------------
(* Filtering the registry (registry.py): daf.registry.actions() returns a  *)
(* FilterableObjects, whose filter selects by attribute.                   *)

\* The value of a keyword argument: a string, or a container of strings of
\* the given Python type.
FilterValue(type, value, items) ==
    [type |-> type, value |-> value, items |-> items]

\* Values to compare app_label with, and values to compare object_arg with.
AppLabelValues ==
    {FilterValue("str", <<"a">>, {}),
     FilterValue("list", <<>>, {<<"a">>, <<"a", "_", "b">>}),
     FilterValue("tuple", <<>>, {<<"a", "_", "b">>}),
     FilterValue("FilterableObjects", <<>>, {<<"a">>}),
     FilterValue("set", <<>>, {<<"a">>, <<"a", "_", "b">>})}

ObjectArgValues ==
    {FilterValue("str", "arg1", {}),
     FilterValue("list", "", {"arg1", "invalid"})}

\* kwargs.items(): no predicate, one predicate, or one on each attribute.
FilterKwargs ==
    {<<>>}
    \cup {<<<<"app_label", v>>>> : v \in AppLabelValues}
    \cup {<<<<"object_arg", v>>>> : v \in ObjectArgValues}
    \cup {<<<<"app_label", v>>, <<"object_arg", w>>>> :
            v \in AppLabelValues, w \in ObjectArgValues}

\* hasattr(obj, attr_name): every action class has an app_label; only an
\* ObjectAction has an object_arg (an ObjectsAction has objects_arg).
hasattr(obj, attr_name) ==
    attr_name = "app_label"
        \/ (attr_name = "object_arg" /\ obj.kind = "ObjectAction")

getattr(obj, attr_name) ==
    IF attr_name = "app_label" THEN obj.app_label ELSE obj.object_arg

\* Faulty variant: every value is compared by equality.
_matches_by_equality(obj, attr_name, val) ==
    IF ~hasattr(obj, attr_name) THEN FALSE
    ELSE val.type = "str" /\ getattr(obj, attr_name) = val.value

\* _matches: membership for a tuple, a list or a FilterableObjects,
\* equality for every other value.  The attributes are strings, which no
\* container equals.
_matches(obj, attr_name, val) ==
    IF ~hasattr(obj, attr_name) THEN FALSE
    ELSE IF val.type \in {"tuple", "list", "FilterableObjects"}
         THEN getattr(obj, attr_name) \in val.items
         ELSE val.type = "str" /\ getattr(obj, attr_name) = val.value

\* FilterableObjects.filter
filter(self, kwargs) ==
    SelectSeq(self, LAMBDA obj :
        \A i \in 1..Len(kwargs) : _matches(obj, kwargs[i][1], kwargs[i][2]))

\* daf.registry.actions().filter
Filter(kwargs) ==
    /\ filtered' = [present |-> TRUE, objects |-> actions(_registry),
                    kwargs |-> kwargs,
                    result |-> filter(actions(_registry), kwargs)]
    /\ UNCHANGED <<view_response, detail_call>>
    /\ UNCHANGED <<run_vars, reg_vars, perm_vars, iface_vars>>

FilterInit ==
    filtered = [present |-> FALSE, objects |-> <<>>, kwargs |-> <<>>,
                result |-> <<>>]

----------------------------------------------------------------------------
(* Requests to built interfaces (views.py, admin.py, rest_framework.py).   *)
(* The principals are authenticated staff users, whom the admin site and   *)
(* the viewset admit; has_perm and the permission_required decorator are   *)
(* Django's.                                                               *)

\* Action.permission_uri
permission_uri(cls) == <<"d", "a", "f", ".">> \o permission_codename(cls)

\* Interface.permission_uri mirrors the action's.
Interface_permission_uri(cls) ==
    permission_uri(InterfaceActionClass(cls.action))

\* The action with a plain view, an admin view and a REST detail action.
ViewAction == "GrantStaffAccess"

\* A permission that is not an action's.
OtherPermission == <<"a", "u", "t", "h", ".", "v", "i", "e", "w">>

\* A user with another permission only, a user with the action's
\* permission, and a superuser, who has every permission.
Users ==
    {[is_superuser |-> FALSE, user_permissions |-> {p}] :
        p \in {permission_uri(InterfaceActionClass(ViewAction)),
               OtherPermission}}
    \cup {[is_superuser |-> TRUE, user_permissions |-> {}]}

NoUser == [is_superuser |-> FALSE, user_permissions |-> {}]

\* request.user.has_perm(perm)
has_perm(user, perm) == user.is_superuser \/ perm \in user.user_permissions

\* Interface classes with each kind of entry point; permission_required is
\* the class's declaration or, in the admin, the setting
\* DAF_ADMIN_ACTION_PERMISSIONS_REQUIRED.
ViewBases ==
    {[kind |-> "ViewInterface", namespace |-> "", type |-> "view"],
     [kind |-> "ModelViewInterface", namespace |-> "admin",
      type |-> "model_view"],
     [kind |-> "DetailAction", namespace |-> "rest_framework",
      type |-> "detail_action"]}

ViewClassDicts ==
    {[base |-> b, action |-> ViewAction, permission_required |-> r] :
        b \in ViewBases, r \in BOOLEAN}

\* ViewInterface.build_interface wraps the view in
\* permission_required(cls.permission_uri, raise_exception=True) when the
\* class requires the permission; DetailAction.as_interface builds the
\* DRF action without reading permission_required.
permission_required_decorator(cls) ==
    cls.kind \in {"ViewInterface", "ModelViewInterface"}
        /\ cls.permission_required

\* AdminViewInterfaceMixin.is_visible
is_visible(cls, user) ==
    IF cls.permission_required
    THEN has_perm(user, Interface_permission_uri(cls))
    ELSE TRUE

\* The methods a built interface answers: a view shows its form on GET
\* and runs on POST, a detail action is declared with methods = ['post'].
Methods == {"GET", "POST"}

ViewResponse(view, user, cls, method, status, callable_ran, daf_actions) ==
    [view |-> view, user |-> user, cls |-> cls, method |-> method,
     status |-> status, callable_ran |-> callable_ran,
     daf_actions |-> daf_actions, built |-> built]

\* A request to the URL of a built interface, with a valid submission.
ActionView(user, cls, method) ==
    /\ cls \in built
    /\ view_response' =
        IF permission_required_decorator(cls)
                /\ ~has_perm(user, Interface_permission_uri(cls))
        THEN ViewResponse("action", user, cls, method, 403, FALSE, {})
        ELSE IF cls.kind = "DetailAction" /\ method # "POST"
        THEN ViewResponse("action", user, cls, method, 405, FALSE, {})
        ELSE ViewResponse("action", user, cls, method, 200,
                          method = "POST", {})
    /\ UNCHANGED <<filtered, detail_call>>
    /\ UNCHANGED <<run_vars, reg_vars, perm_vars, iface_vars>>

\* ActionMixin.changelist_view: the toolbar lists the admin's model views
\* that are visible to the user.
changelist_view(user) ==
    /\ view_response' =
        ViewResponse("changelist", user, NoInterface, "GET", 200, FALSE,
            {cls \in built :
                cls.namespace = "admin" /\ cls.type = "model_view"
                    /\ is_visible(cls, user)})
    /\ UNCHANGED <<filtered, detail_call>>
    /\ UNCHANGED <<run_vars, reg_vars, perm_vars, iface_vars>>

ViewInit ==
    view_response = ViewResponse("None", NoUser, NoInterface, "None", 0,
                                 FALSE, {})

----------------------------------------------------------------------------
(* REST detail actions (rest_framework.py).  DetailAction.run merges the   *)
(* request body into the arguments of the func of an ObjectAction.         *)

\* The fields of a request body that the wrapper of an ObjectAction reads:
\* 'object', 'objects' (a list of one primary key) and the action's
\* object_arg, each a primary key, or 0 when the field is not submitted,
\* and whether a 'request' field is submitted.
Bodies ==
    [object : 0..NumRows, objects : 0..NumRows, object_arg : {0, 1},
     request : BOOLEAN]

NoBody == [object |-> 0, objects |-> 0, object_arg |-> 0, request |-> FALSE]

\* DetailAction.get_default_args: the viewset's object for the primary key
\* of the URL, and the request.
get_default_args(pk) == [object |-> pk, request |-> "request"]

\* default_args = {**self.get_default_args(), **request_args}: a field of
\* the body replaces the default of the same name.  The form's cleaned
\* data adds the form's own fields.
default_args(pk, body) ==
    [object |-> IF body.object # 0 THEN body.object
                ELSE get_default_args(pk).object,
     objects |-> body.objects,
     object_arg |-> body.object_arg,
     request |-> IF body.request THEN "body"
                 ELSE get_default_args(pk).request]

\* ObjectAction.wrapper: objects = arg.first('objects',
\* single_list('object'), single_list(cls.object_arg)), which the queryset
\* loader turns into the rows with these primary keys.
first_objects(args) ==
    IF args.objects # 0 THEN <<args.objects>>
    ELSE IF args.object # 0 THEN <<args.object>>
    ELSE IF args.object_arg # 0 THEN <<args.object_arg>>
    ELSE <<>>

\* POST to the detail action of the record pk: run() calls the wrapped
\* func, which is parametrized over objects, binds each to the object_arg
\* and hands the request argument to the callable, which writes the row.
DetailRequest(pk, body) ==
    /\ LET args == default_args(pk, body)
           targets == first_objects(args)
       IN  /\ detail_call' = [present |-> TRUE, pk |-> pk, body |-> body,
                              targets |-> targets, request |-> args.request]
           /\ db' = [r \in Rows |->
                        IF r \in Range(targets) THEN "new" ELSE db[r]]
    /\ UNCHANGED <<holder, pc, action, objects, idx, txn, trapped_errors,
                   results, attempted, lock_count, db_before, outcome,
                   response, dismissed>>
    /\ UNCHANGED <<filtered, view_response>>
    /\ UNCHANGED <<reg_vars, perm_vars, iface_vars>>

DetailInit ==
    detail_call = [present |-> FALSE, pk |-> 0, body |-> NoBody,
                   targets |-> <<>>, request |-> "None"]

----------------------------------------------------------------------------
(* Specifications *)

Init ==
    /\ RunInit /\ RegInit /\ PermInit /\ InterfaceInit
    /\ FilterInit /\ ViewInit /\ DetailInit

\* One request at a time, any action class, any targets, any behaviour.
Next ==
    \/ \E cls \in ActionClasses, objs \in Collections : Request(1, cls, objs)
    \/ EvaluateQuerySet(1)
    \/ \E b \in Behaviours : SubInvocation(1, b)
    \/ ExitTrappedErrors(1)
    \/ ExitAtomic(1)
    \/ Respond(1)
    \/ \E objs \in Collections : Dismiss(1, objs)

Spec == Init /\ [][Next]_vars

\* Class statements and registrations, as modules are imported.
RegNext ==
    \/ \E class_dict \in ClassDicts : DefineAction(class_dict)
    \/ \E cls \in classes : RegisterAgain(cls)

SpecReg == Init /\ [][RegNext]_vars

\* The actions of a deployment: valid plain actions with three different
\* uris, and one that is kept out of the registry.
PermClassDicts ==
    {ClassDict("Action", <<"a">>, n, FALSE, FALSE, TRUE, FALSE, "None") :
        n \in {<<"c">>, <<"b", "_", "c">>}}
    \cup {ClassDict("Action", <<"a", "_", "b">>, <<"c">>, FALSE, FALSE, TRUE,
                    FALSE, "None")}
    \cup {ClassDict("Action", <<"a">>, <<"c">>, FALSE, TRUE, TRUE, FALSE,
                    "None")}

\* Deployments: classes are defined as modules are imported, the migration
\* installs the permissions, and the next deployment starts afresh.
PermNext ==
    \/ \E class_dict \in PermClassDicts : DefineAction(class_dict)
    \/ Install
    \/ \E k \in 1..MaxDefinitions : InstallFails(k)
    \/ Restart

SpecPerm == Init /\ [][PermNext]_vars

\* One run of an object or objects action under each locking
\* configuration, with a callable that writes, fails before writing, or
\* fails after writing.
LockingClasses ==
    [kind : {"ObjectAction", "ObjectsAction"},
     select_for_update : {select_for_update_default, select_for_update_empty,
                          select_for_update_none}]

LockingBehaviours == {"ok", "ValueError", "IntegrityError"}

LockingNext ==
    \/ \E cls \in LockingClasses, objs \in Collections : Request(1, cls, objs)
    \/ EvaluateQuerySet(1)
    \/ \E b \in LockingBehaviours : SubInvocation(1, b)
    \/ ExitTrappedErrors(1)
    \/ ExitAtomic(1)

SpecLocking == Init /\ [][LockingNext]_vars

\* Interface classes are declared as modules are imported, and built when
\* URL patterns are collected.
InterfaceNext ==
    \/ \E class_dict \in InterfaceClassDicts : DefineInterface(class_dict)
    \/ \E cls \in Range(interface_classes) : AsInterface(cls)

SpecInterface == Init /\ [][InterfaceNext]_vars

\* Action classes of two apps, with and without an object_arg.
FilterClassDicts ==
    {ClassDict("Action", l, <<"c">>, FALSE, FALSE, TRUE, FALSE, "None") :
        l \in {<<"a">>, <<"a", "_", "b">>}}
    \cup {ClassDict("ObjectAction", <<"a">>, <<"b", "_", "c">>, FALSE, FALSE,
                    TRUE, TRUE, "arg1")}
    \cup {ClassDict("ObjectsAction", <<"a", "_", "b">>, <<"b", "_", "c">>,
                    FALSE, FALSE, TRUE, TRUE, "arg1")}

\* Classes are defined as modules are imported, and the registry is
\* filtered at any time.
FilterNext ==
    \/ \E class_dict \in FilterClassDicts : DefineAction(class_dict)
    \/ \E kwargs \in FilterKwargs : Filter(kwargs)

SpecFilter == Init /\ [][FilterNext]_vars

\* Interfaces are declared and built, and users request the admin's
\* change list and the URLs of the built interfaces.
ViewNext ==
    \/ \E class_dict \in ViewClassDicts : DefineInterface(class_dict)
    \/ \E cls \in Range(interface_classes) : AsInterface(cls)
    \/ \E user \in Users, cls \in built, method \in Methods :
            ActionView(user, cls, method)
    \/ \E user \in Users : changelist_view(user)

SpecView == Init /\ [][ViewNext]_vars

\* Requests to the detail action of any record, with any body.
RestNext ==
    \/ \E pk \in Rows, body \in Bodies : DetailRequest(pk, body)

SpecRest == Init /\ [][RestNext]_vars

\* Two requests at once, sharing the store and its row locks.  Their inputs
\* are kept small: an ObjectAction, one or two targets in primary-key order,
\* and a callable that succeeds or fails validation.
ConcCollections ==
    {s \in Collections :
        /\ Len(s) \in {1, 2}
        /\ \A i, j \in 1..Len(s) : i < j => s[i] < s[j]}

ConcBehaviours == {"ok", "ValueError"}

ConcClasses == {cls \in ActionClasses : cls.kind = "ObjectAction"}

ConcNext ==
    \E p \in Procs :
        \/ \E cls \in ConcClasses, objs \in ConcCollections :
               Request(p, cls, objs)
        \/ EvaluateQuerySet(p)
        \/ \E b \in ConcBehaviours : SubInvocation(p, b)
        \/ ExitTrappedErrors(p)
        \/ ExitAtomic(p)
        \/ Respond(p)

SpecConc == Init /\ [][ConcNext]_vars

----------------------------------------------------------------------------
(* Properties of the run (checked under Spec) *)

\* An atomic action: its select_for_update is not None.
AtomicClass(cls) == ~cls.select_for_update.is_none

LockedClass(cls) == cls.select_for_update = select_for_update_default

\* The targets whose sub-invocation did not return, in the order attempted.
FailedTargets(p) ==
    SelectSeq(attempted[p], LAMBDA r : r \notin Range(results[p]))

\* C1: when an atomic action's run fails, trapped or not, the store is what
\* it was before the run: no write of any sub-invocation is persisted, and
\* none is visible outside the transaction while it is open.
C1_AtomicFailureRollsBack ==
    \A p \in Procs :
        AtomicClass(action[p]) =>
            /\ pc[p] \in {"parametrize", "exit_atomic"} => db = db_before[p]
            /\ (pc[p] \in {"respond", "done"} /\ outcome[p].kind = "raise")
                   => (db = db_before[p] /\ txn[p] = {})

\* The second of three sub-invocations fails after writing; the first and
\* the third succeeded; the run is over.
C1_Witness ==
    \E p \in Procs :
        /\ AtomicClass(action[p])
        /\ action[p].kind = "ObjectAction"
        /\ pc[p] = "done"
        /\ outcome[p].kind = "raise"
        /\ Len(objects[p]) = 3
        /\ results[p] = <<objects[p][1], objects[p][3]>>
        /\ Len(trapped_errors[p]) = 1
        /\ trapped_errors[p][1].cls = "IntegrityError"

\* The messages an exception carries, in order.
Messages(e) ==
    IF IsValidationError(e)
    THEN [i \in 1..Len(ErrorList(e)) |-> Str(ErrorList(e)[i])]
    ELSE <<e.message>>

RECURSIVE AllMessages(_)
AllMessages(es) ==
    IF es = <<>> THEN <<>> ELSE Messages(Head(es)) \o AllMessages(Tail(es))

C3_EveryTargetAttempted ==
    \A p \in Procs :
        action[p].kind = "ObjectAction" =>
            /\ Len(attempted[p]) <= Len(objects[p])
            /\ attempted[p] = SubSeq(objects[p], 1, Len(attempted[p]))
            /\ Len(attempted[p]) = Len(results[p]) + Len(trapped_errors[p])
            /\ outcome[p].kind # "none" => attempted[p] = objects[p]

\* The first of three targets raised and the later ones still ran.
C3_Witness ==
    \E p \in Procs :
        /\ action[p].kind = "ObjectAction"
        /\ pc[p] = "done"
        /\ Len(objects[p]) = 3
        /\ Len(trapped_errors[p]) >= 1
        /\ trapped_errors[p][1].arg_call.parametrize_arg_val = objects[p][1]
        /\ Len(results[p]) >= 1
        /\ attempted[p] = objects[p]

\* C5: a locked ObjectAction run takes its row locks once, on every target,
\* before the first sub-invocation, and never again during the run.
C5_LockOnceBeforeFirst ==
    \A p \in Procs :
        (action[p].kind = "ObjectAction" /\ LockedClass(action[p])) =>
            /\ lock_count[p] <= 1
            /\ pc[p] = "qset" => (lock_count[p] = 0 /\ attempted[p] = <<>>)
            /\ pc[p] = "parametrize" =>
                  /\ lock_count[p] = 1
                  /\ \A r \in Range(objects[p]) : holder[r] = p
            /\ attempted[p] # <<>> => lock_count[p] = 1

C5_Witness ==
    \E p \in Procs :
        /\ action[p].kind = "ObjectAction"
        /\ LockedClass(action[p])
        /\ pc[p] = "parametrize"
        /\ Len(objects[p]) = 3
        /\ Len(attempted[p]) = 2
        /\ lock_count[p] = 1

\* Every trapped error of the run carries one message.
SingleMessages(p) ==
    \A i \in 1..Len(trapped_errors[p]) : trapped_errors[p][i].shape = "single"

\* C8: a run over more than one target in which at least two targets fail,
\* each with one message, raises one aggregate error; the form shows one
\* error per failing target, its message prefixed by the target's display.
C8_AggregateOnePrefixedErrorPerTarget ==
    \A p \in Procs :
        (/\ action[p].kind = "ObjectAction"
         /\ pc[p] = "done"
         /\ Len(objects[p]) > 1
         /\ Len(FailedTargets(p)) >= 2
         /\ SingleMessages(p)) =>
            LET F == FailedTargets(p)
                errors == response[p].errors
            IN  /\ outcome[p].kind = "raise"
                /\ outcome[p].exc.cls = "ValidationError"
                /\ outcome[p].exc.shape = "list"
                /\ Len(ErrorList(outcome[p].exc)) = Len(F)
                /\ Len(errors) = Len(F)
                /\ \A i \in 1..Len(F) :
                      errors[i].message =
                          <<render_arg_val(F[i]), " - ">>
                              \o trapped_errors[p][i].message

\* Targets A and C fail, B succeeds.
C8_Witness ==
    \E p \in Procs :
        /\ action[p].kind = "ObjectAction"
        /\ pc[p] = "done"
        /\ Len(objects[p]) = 3
        /\ FailedTargets(p) = <<objects[p][1], objects[p][3]>>
        /\ SingleMessages(p)
        /\ Len(response[p].errors) = 2

\* The message of a displayed error starts with the display of a failing
\* target and the separator.
IsPrefixed(p, message) ==
    /\ Len(message) >= 2
    /\ message[2] = " - "
    /\ \E r \in Range(FailedTargets(p)) : message[1] = render_arg_val(r)

\* C9: every message the form shows for a failed run of an ObjectAction is
\* prefixed with its target's display if and only if the run was over more
\* than one target.
C9_PrefixIffSeveralTargets ==
    \A p \in Procs :
        (/\ action[p].kind = "ObjectAction"
         /\ pc[p] = "done"
         /\ outcome[p].kind = "raise") =>
            \A i \in 1..Len(response[p].errors) :
                IsPrefixed(p, Str(response[p].errors[i]))
                    <=> Len(objects[p]) > 1

\* C10: after a failed run of an ObjectAction over the targets T of which
\* the targets F failed, the bulk view reports failed_objects = F and
\* successful_objects = T \ F.
C10_SuccessfulAndFailedPartition ==
    \A p \in Procs :
        (/\ action[p].kind = "ObjectAction"
         /\ pc[p] = "done"
         /\ outcome[p].kind = "raise") =>
            LET c == response[p].context
                F == Range(FailedTargets(p))
                T == Range(objects[p])
            IN  /\ c.present
                /\ c.failed_objects = F
                /\ c.successful_objects = T \ F
                /\ c.failed_objects \cap c.successful_objects = {}
                /\ c.failed_objects \cup c.successful_objects = T

\* C11 as claimed: the request behind the dismiss link has the failed
\* targets of the prior run, and none of its successful targets, as its
\* target set.
C11_DismissRunsFailedTargets ==
    \A p \in Procs :
        dismissed[p].present =>
            /\ Range(objects[p]) = dismissed[p].failed_objects
            /\ Range(objects[p]) \cap dismissed[p].successful_objects = {}

\* C11 as amended: the request behind the dismiss link has exactly the
\* successful targets of the prior run, and none of its failed targets, as
\* its full target set.
C11_DismissRunsSuccessfulTargets ==
    \A p \in Procs :
        dismissed[p].present =>
            /\ dismissed[p].failed_objects # {}
            /\ dismissed[p].successful_objects # {}
            /\ Range(objects[p]) = dismissed[p].successful_objects
            /\ Range(objects[p]) \cap dismissed[p].failed_objects = {}
            /\ Len(objects[p]) = Cardinality(dismissed[p].successful_objects)

\* A and C failed, B succeeded, and the dismiss link was followed.
C11_Witness ==
    \E p \in Procs :
        /\ dismissed[p].present
        /\ dismissed[p].objects = {1, 2, 3}
        /\ dismissed[p].failed_objects = {1, 3}
        /\ dismissed[p].successful_objects = {2}
        /\ objects[p] = <<2>>
        /\ pc[p] = "done"

\* C12: when an atomic run of an ObjectAction over T fails on a non-empty
\* proper subset F, the store is as before the run and the dismiss link
\* carries T \ F; the request behind the link runs over T \ F, and once it
\* has succeeded every target of T \ F is updated and every target of F
\* has kept its value.
C12_DismissalFlow ==
    \A p \in Procs :
        (action[p].kind = "ObjectAction" /\ AtomicClass(action[p])) =>
            LET T == Range(objects[p])
                F == Range(FailedTargets(p))
                c == response[p].context
                d == dismissed[p]
            IN  /\ (pc[p] = "done" /\ outcome[p].kind = "raise"
                        /\ F # {} /\ F # T) =>
                      /\ db = db_before[p]
                      /\ c.dismiss_failures_url
                      /\ c.successful_objects = T \ F
                /\ d.present => T = d.objects \ d.failed
                /\ (d.present /\ pc[p] = "done"
                        /\ outcome[p].kind = "return") =>
                      \A r \in d.objects :
                          db[r] = IF r \in d.failed
                                  THEN db_before[p][r] ELSE "new"

\* C13: a run over N targets in which every sub-invocation succeeded
\* raises nothing and returns N values, the i-th being the result of the
\* sub-invocation on the i-th target (the callable returns its target);
\* the view answers with success and shows no error.
C13_AllSucceedReturnsOrderedResults ==
    \A p \in Procs :
        (/\ outcome[p].kind # "none"
         /\ attempted[p] = objects[p]
         /\ Len(results[p]) = Len(objects[p])) =>
            /\ trapped_errors[p] = <<>>
            /\ outcome[p].kind = "return"
            /\ outcome[p].exc = NoException
            /\ Len(outcome[p].value) = Len(objects[p])
            /\ \A i \in 1..Len(objects[p]) :
                  outcome[p].value[i] = objects[p][i]
            /\ pc[p] = "done" =>
                  (response[p].status = "success"
                      /\ response[p].errors = <<>>)

\* Three targets in an order that is not ascending, all succeeded.
C13_Witness ==
    \E p \in Procs :
        /\ action[p].kind = "ObjectAction"
        /\ pc[p] = "done"
        /\ objects[p] = <<3, 1, 2>>
        /\ outcome[p].kind = "return"
        /\ outcome[p].value = <<3, 1, 2>>

\* A displayed message without the target prefix the contextualizer added.
Unprefixed(p, message) ==
    IF IsPrefixed(p, message) THEN SubSeq(message, 3, Len(message))
    ELSE message

\* C14: the sub-invocations run in the order of the target collection; the
\* trapped errors, the sub-errors of the error the func raises and the
\* errors the form shows all follow that order (errors of an earlier
\* target before errors of a later one); and the targets recorded with an
\* error, from which the dismiss link is built, are the target collection
\* in its order.
C14_OrderPreserved ==
    \A p \in Procs :
        action[p].kind = "ObjectAction" =>
            LET t == trapped_errors[p]
                F == FailedTargets(p)
                errors == response[p].errors
                c == response[p].context
            IN  /\ attempted[p] = SubSeq(objects[p], 1, Len(attempted[p]))
                /\ Len(t) = Len(F)
                /\ \A i \in 1..Len(t) :
                      /\ t[i].arg_call.parametrize_arg_val = F[i]
                      /\ t[i].arg_call.parametrize_arg_vals = objects[p]
                /\ outcome[p].kind = "raise" =>
                      Messages(outcome[p].exc) = AllMessages(t)
                /\ (pc[p] = "done" /\ outcome[p].kind = "raise") =>
                      /\ [i \in 1..Len(errors) |->
                              Unprefixed(p, Str(errors[i]))] = AllMessages(t)
                      /\ \A i \in 1..Len(errors) :
                            HasFailedTarget(errors[i]) =>
                                errors[i].arg_call.parametrize_arg_vals
                                    = objects[p]
                      /\ c.present =>
                            c.failed_objects \cup c.successful_objects
                                = Range(objects[p])

\* C15: an action whose wrapper does not trap (ObjectsAction, ModelAction)
\* stops at the first sub-invocation that raises: nothing is trapped, no
\* later target is attempted, and the func raises that exception as the
\* callable raised it, with the call attached, not an aggregate of it.
C15_UntrappedErrorPropagatesAtOnce ==
    \A p \in Procs :
        action[p].kind \in {"ObjectsAction", "ModelAction"} =>
            /\ trapped_errors[p] = <<>>
            /\ attempted[p] = SubSeq(objects[p], 1, Len(attempted[p]))
            /\ outcome[p].kind = "none" => Len(attempted[p]) = Len(results[p])
            /\ outcome[p].kind = "return" => results[p] = objects[p]
            /\ outcome[p].kind = "raise" =>
                  /\ Len(attempted[p]) = Len(results[p]) + 1
                  /\ results[p] = SubSeq(objects[p], 1, Len(results[p]))
                  /\ \E b \in Behaviours \ {"ok"} :
                        outcome[p].exc =
                            [Raised(b) EXCEPT
                                !.arg_call = [NoArgCall EXCEPT
                                                 !.present = TRUE]]

\* The second of three targets raised; the third was never attempted.
C15_Witness ==
    \E p \in Procs :
        /\ action[p].kind = "ModelAction"
        /\ pc[p] = "done"
        /\ Len(objects[p]) = 3
        /\ attempted[p] = SubSeq(objects[p], 1, 2)
        /\ Len(results[p]) = 1
        /\ outcome[p].kind = "raise"
        /\ outcome[p].exc.cls = "ValueError"

\* C22: contextualization is idempotent.  For the error a run raises,
\* wrapping the contextualized error in the contextualizer again yields the
\* same messages as wrapping it once, and no message carries the
\* '<target-display> - ' prefix more than once.
C22_ContextualizationIdempotent ==
    \A p \in Procs :
        outcome[p].kind = "raise" =>
            LET once == raise_contextualized_error(outcome[p].exc)
                twice == raise_contextualized_error(once)
            IN  /\ Messages(twice) = Messages(once)
                /\ \A i \in 1..Len(Messages(twice)) :
                      IsPrefixed(p, Messages(twice)[i]) =>
                          ~IsPrefixed(p, Unprefixed(p, Messages(twice)[i]))

\* C25: locking and atomicity follow select_for_update.  With the default
\* the run is atomic and every target row is locked while the transaction
\* is open; with an empty list no row is locked but the run is still one
\* transaction (nothing is persisted while it is open, a failed run leaves
\* the store as it was, a successful one commits every write); only None
\* removes the transaction, and then nothing is locked and the write of
\* every target that succeeded is persisted even when the run fails.
C25_LockingConfiguration ==
    \A p \in Procs :
        pc[p] # "idle" =>
            LET cls == action[p]
                open == pc[p] \in {"parametrize", "exit_atomic"}
                over == pc[p] \in {"respond", "done"}
            IN  /\ ~cls.select_for_update.is_none =>
                      /\ open => db = db_before[p]
                      /\ (over /\ outcome[p].kind = "raise")
                            => db = db_before[p]
                      /\ (over /\ outcome[p].kind = "return")
                            => \A r \in Range(results[p]) : db[r] = "new"
                /\ cls.select_for_update = select_for_update_default =>
                      /\ open => \A r \in Range(objects[p]) : holder[r] = p
                      /\ over => lock_count[p] = 1
                /\ cls.select_for_update = select_for_update_empty =>
                      /\ \A r \in Rows : holder[r] # p
                      /\ lock_count[p] = 0
                /\ cls.select_for_update = select_for_update_none =>
                      /\ \A r \in Rows : holder[r] # p
                      /\ lock_count[p] = 0
                      /\ txn[p] = {}
                      /\ \A r \in Range(results[p]) : db[r] = "new"

\* A run with an empty lock list wrote a target, failed on another, and was
\* rolled back without ever holding a row.
C25_Witness ==
    /\ action[1].select_for_update = select_for_update_empty
    /\ pc[1] = "respond"
    /\ outcome[1].kind = "raise"
    /\ results[1] # <<>>
    /\ db = db_before[1]
    /\ lock_count[1] = 0

\* The sequence s with its i-th element moved to the end.
MoveLast(s, i) ==
    [j \in 1..Len(s) |->
        IF j < i THEN s[j] ELSE IF j < Len(s) THEN s[j + 1] ELSE s[i]]

\* The error list the contextualizer starts from, for the error exc.
InitialErrorList(exc) ==
    ErrorList([ValidationError(exc) EXCEPT !.arg_call = exc.arg_call])

\* A list-shaped error with the error list es.
ErrorOfList(es) ==
    [ValidationErrorList(<<>>) EXCEPT !.error_list = es]

\* C26: in a parametrized run every trapped error carries its own failing
\* target and the full target collection of the run, the same on every
\* trapped error; so the values the prefix decision counts and the
\* successful and failed objects the view reports are the same whichever
\* error is examined last.
C26_TrappedErrorsShareTargetSet ==
    \A p \in Procs :
        action[p].kind = "ObjectAction" =>
            LET t == trapped_errors[p]
            IN  /\ \A i \in 1..Len(t) :
                      /\ t[i].arg_call.present
                      /\ t[i].arg_call.parametrize_arg_val
                            = FailedTargets(p)[i]
                      /\ t[i].arg_call.parametrize_arg_vals = objects[p]
                /\ \A i \in 1..Len(t) :
                      get_successful_and_failed_objects(MoveLast(t, i))
                          = get_successful_and_failed_objects(t)
                /\ outcome[p].kind = "raise" =>
                      LET es == InitialErrorList(outcome[p].exc)
                      IN  \A i \in 1..Len(es) :
                              parametrized_vals(ErrorOfList(MoveLast(es, i)))
                                  = parametrized_vals(ErrorOfList(es))
                /\ (pc[p] = "done" /\ outcome[p].kind = "raise") =>
                      \A i \in 1..Len(response[p].errors) :
                          get_successful_and_failed_objects(
                              MoveLast(response[p].errors, i))
                            = response[p].context

\* Two targets of three failed, in a run whose view has answered.
C26_Witness ==
    /\ action[1].kind = "ObjectAction"
    /\ pc[1] = "done"
    /\ Len(objects[1]) = 3
    /\ Len(trapped_errors[1]) = 2
    /\ trapped_errors[1][1].arg_call.parametrize_arg_val
          # trapped_errors[1][2].arg_call.parametrize_arg_val
    /\ response[1].context.successful_objects # {}

----------------------------------------------------------------------------
(* Properties of concurrent requests (checked under SpecConc) *)

\* The request has evaluated its queryset and its transaction is open.
InTransaction(p) == pc[p] \in {"parametrize", "exit_atomic"}

\* C4: while the transaction of a locked action is open, no other locked
\* action whose targets overlap with it has got past the evaluation of its
\* queryset: it has run no sub-invocation, and the rows stay with the first.
C4_OverlappingLockedRunsExclude ==
    \A p, q \in Procs :
        (/\ p # q
         /\ LockedClass(action[p])
         /\ LockedClass(action[q])
         /\ InTransaction(p)
         /\ Range(objects[p]) \cap Range(objects[q]) # {}) =>
            /\ ~InTransaction(q)
            /\ pc[q] = "qset" => attempted[q] = <<>>
            /\ \A r \in Range(objects[p]) : holder[r] = p

\* The first request holds rows {X, Y} and has run a sub-invocation; the
\* second, targeting X, waits at the evaluation of its queryset.
C4_Witness ==
    \E p, q \in Procs :
        /\ p # q
        /\ LockedClass(action[p])
        /\ LockedClass(action[q])
        /\ pc[p] = "parametrize"
        /\ Len(objects[p]) = 2
        /\ Len(attempted[p]) = 1
        /\ pc[q] = "qset"
        /\ Len(objects[q]) = 1
        /\ objects[q][1] = objects[p][1]
        /\ ~ENABLED EvaluateQuerySet(q)

----------------------------------------------------------------------------
(* Properties of the registry (checked under SpecReg) *)

\* C6: a registration under a uri that maps to a different class raises the
\* duplicate error and leaves the registry as it was; registering the class
\* the uri already maps to changes nothing; otherwise exactly the new uri
\* is added.
C6_DuplicateRegistration ==
    last_op.registered =>
        LET cls == last_op.cls
            u == cls.app_label \o <<".">> \o cls.name
            before == last_op.registry_before
        IN  IF u \in DOMAIN before /\ before[u] # cls
            THEN last_op.error = "RuntimeError" /\ _registry = before
            ELSE IF u \in DOMAIN before
            THEN last_op.error = "None" /\ _registry = before
            ELSE /\ last_op.error = "None"
                 /\ DOMAIN _registry = DOMAIN before \cup {u}
                 /\ _registry[u] = cls
                 /\ \A k \in DOMAIN before : _registry[k] = before[k]

\* A second class with the uri of a registered one has just been refused.
C6_Witness ==
    /\ last_op.op = "class"
    /\ last_op.registered
    /\ last_op.error = "RuntimeError"
    /\ Cardinality(DOMAIN _registry) = 1

\* The classes that exist and are meant for the registry.
RegisteredClasses == {c \in classes : ~c.abstract /\ ~c.unregistered}

\* C7 as claimed: no two distinct non-abstract classes have the same uri,
\* and every registry key maps to the class whose uri is that key.
C7_UriUniqueAmongConcrete ==
    /\ \A c1, c2 \in classes :
          (~c1.abstract /\ ~c2.abstract /\ c1 # c2) => uri(c1) # uri(c2)
    /\ \A k \in DOMAIN _registry :
          k = _registry[k].app_label \o <<".">> \o _registry[k].name

\* C7 as amended: no two distinct registered classes (concrete and not
\* marked unregistered) have the same uri, every registry key maps to a
\* registered class whose app_label.name is that key, and every registered
\* class is in the registry under its uri.
C7_UriUniqueAmongRegistered ==
    /\ \A c1, c2 \in RegisteredClasses :
          c1 # c2 =>
              c1.app_label \o <<".">> \o c1.name
                  # c2.app_label \o <<".">> \o c2.name
    /\ \A k \in DOMAIN _registry :
          /\ _registry[k] \in RegisteredClasses
          /\ k = _registry[k].app_label \o <<".">> \o _registry[k].name
    /\ \A c \in RegisteredClasses :
          LET u == c.app_label \o <<".">> \o c.name
          IN  u \in DOMAIN _registry /\ _registry[u] = c

\* Two classes of the same app are registered under their two uris.
C7_Witness ==
    \E c1, c2 \in RegisteredClasses :
        /\ c1 # c2
        /\ c1.app_label = c2.app_label
        /\ DOMAIN _registry = {uri(c1), uri(c2)}

\* The class statement last executed declared a concrete ObjectAction or
\* ObjectsAction whose object argument is not a parameter of its callable.
AbsentObjectArgDeclared ==
    /\ last_op.op = "class"
    /\ last_op.cls.kind \in {"ObjectAction", "ObjectsAction"}
    /\ ~last_op.cls.abstract
    /\ last_op.cls.object_arg # "None"
    /\ last_op.cls.object_arg \notin FuncParameters

PassesDefinitionChecks(cls) ==
    /\ cls.callable
    /\ cls.name # <<>> /\ cls.name[1] \in WordChars
    /\ cls.app_label # <<>> /\ cls.app_label[1] \in WordChars
    /\ Len(cls.app_label) + Len(cls.name) + 8 <= 100
    /\ cls.kind # "Action" => cls.model
    /\ cls.kind \in {"ObjectAction", "ObjectsAction"} =>
          cls.object_arg \in FuncParameters

\* C17: every class the registry holds passed every definition-time check
\* and exists; a class statement that failed a check never reached the
\* registration, produced no class and left the registry as it was.
C17_ValidationPrecedesRegistration ==
    /\ \A k \in DOMAIN _registry :
          /\ PassesDefinitionChecks(_registry[k])
          /\ ~_registry[k].abstract
          /\ _registry[k] \in classes
    /\ (last_op.op = "class" /\ ~last_op.cls.abstract
            /\ ~PassesDefinitionChecks(last_op.cls)) =>
          /\ last_op.error \notin {"None", "RuntimeError"}
          /\ ~last_op.registered
          /\ last_op.cls \notin classes
          /\ _registry = last_op.registry_before
          /\ \A k \in DOMAIN _registry : _registry[k] # last_op.cls
    /\ last_op.registered =>
          (~last_op.cls.abstract /\ PassesDefinitionChecks(last_op.cls))

\* The registry holds a valid ObjectAction, and a ModelAction without a
\* model, meant for the registry, has just been refused.
C17_Witness ==
    /\ last_op.op = "class"
    /\ last_op.cls.kind = "ModelAction"
    /\ ~last_op.cls.unregistered
    /\ ~last_op.cls.model
    /\ last_op.error = "AttributeError: model"
    /\ \E k \in DOMAIN _registry : _registry[k].kind = "ObjectAction"

\* C18: a class that exists is in the registry exactly when its own
\* declaration does not say abstract and it is not marked unregistered; an
\* abstract class is created without validation or registration, an
\* unregistered one is validated but not registered, and a class that
\* declares neither (every class derives from an abstract one) is concrete:
\* validated and registered.
C18_RegisteredIffConcreteAndNotExcluded ==
    /\ \A c \in classes :
          (\E k \in DOMAIN _registry : _registry[k] = c)
              <=> (~c.abstract /\ ~c.unregistered)
    /\ \A k \in DOMAIN _registry : _registry[k] \in classes
    /\ last_op.op = "class" =>
          LET cls == last_op.cls
          IN  /\ cls.abstract =>
                    /\ last_op.error = "None"
                    /\ ~last_op.registered
                    /\ cls \in classes
                    /\ _registry = last_op.registry_before
              /\ (~cls.abstract /\ cls.unregistered) =>
                    /\ ~last_op.registered
                    /\ _registry = last_op.registry_before
                    /\ cls \in classes <=> PassesDefinitionChecks(cls)
              /\ (~cls.abstract /\ ~cls.unregistered) =>
                    /\ last_op.registered <=> PassesDefinitionChecks(cls)
                    /\ cls \in classes <=>
                          (last_op.registered /\ last_op.error = "None")

\* An abstract class with an invalid name exists unregistered, next to a
\* concrete class that is registered.
C18_Witness ==
    \E c1, c2 \in classes :
        /\ c1.abstract
        /\ c1.name = <<"*">>
        /\ ~c2.abstract
        /\ ~c2.unregistered
        /\ DOMAIN _registry = {uri(c2)}
        /\ _registry[uri(c2)] = c2

----------------------------------------------------------------------------
(* Properties of the permissions (checked under SpecPerm) *)

\* The permissions stored under the action-permission content type.
ActionPermissions ==
    {p \in permissions : p.content_type = action_permission_ctype}

\* The codename of a registered action, by its definition.
CodenameOf(cls) ==
    cls.app_label \o <<"_">> \o cls.name
        \o <<"_", "a", "c", "t", "i", "o", "n">>

\* install has run and the registry is what it was then.
InstalledForRegistry ==
    /\ installed.present
    /\ installed.error = "None"
    /\ installed.registry = _registry

\* C19: after install the codenames of the action permissions are exactly
\* the permission codenames of the registered actions: every registered
\* action has its permission, named after an action with that codename,
\* every other action permission is gone, and installing again changes
\* nothing.
C19_InstallReconcilesPermissions ==
    InstalledForRegistry =>
        /\ {p.codename : p \in ActionPermissions}
               = {CodenameOf(_registry[u]) : u \in DOMAIN _registry}
        /\ \A u \in DOMAIN _registry :
              \E p \in ActionPermissions :
                  /\ p.codename = CodenameOf(_registry[u])
                  /\ \E v \in DOMAIN _registry :
                        /\ CodenameOf(_registry[v]) = p.codename
                        /\ p.name = _get_permission_name(_registry[v])
        /\ \A p, q \in permissions :
              (p.codename = q.codename /\ p.content_type = q.content_type)
                  => p = q
        /\ \A p, q \in permissions : p.id = q.id => p = q
        /\ install(_registry, permissions) = permissions

\* An install created a permission, a later deployment registered another
\* action only, and its install deleted the first permission and created
\* the second.
C19_Witness ==
    /\ InstalledForRegistry
    /\ Cardinality(DOMAIN _registry) = 1
    /\ Cardinality(ActionPermissions) = 1
    /\ \E p \in installed.permissions_before :
          /\ p.content_type = action_permission_ctype
          /\ \A q \in ActionPermissions : q.codename # p.codename

\* C20: after install the number of action permissions is the number of
\* registered actions: no two registered actions share a permission.
C20_OnePermissionPerRegisteredAction ==
    InstalledForRegistry =>
        /\ Cardinality(ActionPermissions) = Cardinality(DOMAIN _registry)
        /\ \A u, v \in DOMAIN _registry :
              u # v => CodenameOf(_registry[u]) # CodenameOf(_registry[v])

\* The identifier is empty or contains a character that is not a letter, a
\* digit or an underscore.
NonAlphanumeric(s) == s = <<>> \/ \E i \in 1..Len(s) : s[i] \notin WordChars

\* C27: a concrete definition (with its callable) whose name or app_label
\* is empty or contains any character other than letters, digits and
\* underscore fails definition-time validation with the error that names a
\* non-alphanumeric attribute; no class is produced and nothing is
\* registered.
C27_NonAlphanumericIdentifierFails ==
    (/\ last_op.op = "class"
     /\ ~last_op.cls.abstract
     /\ last_op.cls.callable
     /\ \/ NonAlphanumeric(last_op.cls.name)
        \/ NonAlphanumeric(last_op.cls.app_label)) =>
        /\ \/ /\ last_op.error = "AttributeError: name"
              /\ NonAlphanumeric(last_op.cls.name)
           \/ /\ last_op.error = "AttributeError: app_label"
              /\ NonAlphanumeric(last_op.cls.app_label)
        /\ last_op.cls \notin classes
        /\ _registry = last_op.registry_before

\* The permissions of the table perms that are attached to a content type
\* other than ActionPermission's.
OtherPermissions(perms) ==
    {p \in perms : p.content_type # action_permission_ctype}

----------------------------------------------------------------------------
(* Properties of interfaces (checked under SpecInterface) *)

\* A model view interface bound to an action that is not a ModelAction.
Unsatisfied(cls) ==
    /\ cls.kind = "ModelViewInterface"
    /\ cls.action # "None"
    /\ ~IsModelAction(cls.action)

\* The interface is in the mapping observed on its action.
Attached(cls) ==
    /\ cls.action # "None"
    /\ Interface_uri(cls) \in DOMAIN GetInterfaces(interfaces, cls.action)
    /\ GetInterfaces(interfaces, cls.action)[Interface_uri(cls)] = cls

\* C21 as stated: an interface whose record-type constraint is not
\* satisfied by its action is rejected at interface definition time; its
\* class statement fails, so no such class exists, and it is never attached
\* to the action's interface mapping.
C21_UnsatisfiedInterfaceRejectedAtDefinition ==
    \A cls \in Range(interface_classes) :
        /\ ~Unsatisfied(cls)
        /\ Unsatisfied(cls) => ~Attached(cls)

\* C21: an interface whose record-type constraint is not satisfied by its
\* action is rejected when it is built, not when it is defined: its class
\* statement succeeds and attaches it to a non-abstract action, while
\* as_interface() raises the definition error and never builds a view.
C21_UnsatisfiedInterfaceRejectedWhenBuilt ==
    \A cls \in Range(interface_classes) :
        Unsatisfied(cls) =>
            /\ cls \notin built
            /\ (last_interface_op.op = "class" /\ last_interface_op.cls = cls)
                  => /\ last_interface_op.error = "None"
                     /\ ~is_abstract(InterfaceActionClass(cls.action))
                           => Attached(cls)
            /\ (last_interface_op.op = "as_interface"
                   /\ last_interface_op.cls = cls)
                  => last_interface_op.error = "AttributeError"

\* An unsatisfied interface has been defined, is attached to its action,
\* and its build has just been refused.
C21_Witness ==
    /\ last_interface_op.op = "as_interface"
    /\ Unsatisfied(last_interface_op.cls)
    /\ Attached(last_interface_op.cls)
    /\ last_interface_op.error = "AttributeError"
    /\ last_interface_op.cls \notin built

\* The mapping observed on action a before the last interface statement.
InterfacesBefore(a) == GetInterfaces(last_interface_op.interfaces_before, a)

\* C29: declaring an interface for a non-abstract action A adds or replaces
\* exactly one entry, keyed by the interface URI (namespace.type, or type
\* alone when the namespace is empty), in A's interface mapping and leaves
\* the mapping observed on every other action (base classes, subclasses,
\* unrelated actions) unchanged; an interface bound to an abstract action
\* (or to none) is attached nowhere.
C29_DeclarationChangesOneEntryOfOneAction ==
    last_interface_op.op = "class" =>
        LET cls == last_interface_op.cls
            key == IF cls.namespace = "" THEN cls.type
                   ELSE cls.namespace \o "." \o cls.type
        IN IF cls.action # "None"
                /\ ~is_abstract(InterfaceActionClass(cls.action))
           THEN /\ DOMAIN GetInterfaces(interfaces, cls.action)
                      = DOMAIN InterfacesBefore(cls.action) \cup {key}
                /\ GetInterfaces(interfaces, cls.action)[key] = cls
                /\ \A u \in DOMAIN InterfacesBefore(cls.action) \ {key} :
                      GetInterfaces(interfaces, cls.action)[u]
                          = InterfacesBefore(cls.action)[u]
                /\ \A a \in InterfaceActions \ {cls.action} :
                      GetInterfaces(interfaces, a) = InterfacesBefore(a)
           ELSE \A a \in InterfaceActions :
                      GetInterfaces(interfaces, a) = InterfacesBefore(a)

----------------------------------------------------------------------------
(* Properties of filtering (checked under SpecFilter) *)

\* result holds exactly the objects of objs that satisfy Holds, in the
\* order of objs.
ExactlyInOrder(result, objs, Holds(_)) ==
    /\ \A i \in 1..Len(result) : result[i] \in Range(objs) /\ Holds(result[i])
    /\ \A o \in Range(objs) : Holds(o) => o \in Range(result)
    /\ \A i, j \in 1..Len(result) :
        i < j => \E k, l \in 1..Len(objs) :
                    k < l /\ objs[k] = result[i] /\ objs[l] = result[j]

\* A predicate on a collection means "member of", on a scalar "equal to".
HoldsForCollections(obj, kwarg) ==
    /\ hasattr(obj, kwarg[1])
    /\ IF kwarg[2].type = "str" THEN getattr(obj, kwarg[1]) = kwarg[2].value
       ELSE getattr(obj, kwarg[1]) \in kwarg[2].items

\* A predicate on a tuple, a list or a filterable list means "member of";
\* any other value, a set included, is compared by equality, which no
\* string attribute satisfies for a set.
HoldsForSequences(obj, kwarg) ==
    /\ hasattr(obj, kwarg[1])
    /\ kwarg[2].type # "set"
    /\ IF kwarg[2].type = "str" THEN getattr(obj, kwarg[1]) = kwarg[2].value
       ELSE getattr(obj, kwarg[1]) \in kwarg[2].items

\* C23 as stated: filtering returns exactly the objects, in their original
\* order, for which every predicate holds, where a scalar predicate holds
\* on equality, a predicate on any collection holds on membership, and an
\* object lacking the attribute never matches; no predicate returns all.
C23_FilterByEqualityOrMembership ==
    filtered.present =>
        /\ ExactlyInOrder(filtered.result, filtered.objects,
                LAMBDA obj : \A i \in 1..Len(filtered.kwargs) :
                    HoldsForCollections(obj, filtered.kwargs[i]))
        /\ (filtered.kwargs = <<>> => filtered.result = filtered.objects)

\* C23 amended: as above, with membership for a tuple, a list or a
\* filterable list only; every other value, a set included, is compared by
\* equality.
C23_FilterByEqualityOrSequenceMembership ==
    filtered.present =>
        /\ ExactlyInOrder(filtered.result, filtered.objects,
                LAMBDA obj : \A i \in 1..Len(filtered.kwargs) :
                    HoldsForSequences(obj, filtered.kwargs[i]))
        /\ (filtered.kwargs = <<>> => filtered.result = filtered.objects)

\* Two registered actions are filtered by a list of app labels and an
\* object_arg that one of them lacks: one is kept, one is dropped.
C23_Witness ==
    /\ filtered.present
    /\ Len(filtered.objects) = 2
    /\ Len(filtered.kwargs) = 2
    /\ filtered.kwargs[1][2].type = "list"
    /\ Len(filtered.result) = 1
    /\ \E o \in Range(filtered.objects) : ~hasattr(o, "object_arg")

----------------------------------------------------------------------------
(* Properties of requests to interfaces (checked under SpecView) *)

\* The last response obeys the permission gate of the interface cls, one
\* of those built when the request was made.
GateObeyed(cls) ==
    LET r == view_response
        allowed == ~cls.permission_required
                      \/ has_perm(r.user, Interface_permission_uri(cls))
    IN  /\ r.view = "action" /\ r.cls = cls =>
            IF allowed
            THEN r.status # 403 /\ (r.method = "POST" => r.callable_ran)
            ELSE r.status = 403 /\ ~r.callable_ran
        /\ r.view = "changelist" /\ cls.namespace = "admin" =>
            (cls \in r.daf_actions <=> allowed)

\* C24: when an interface requires the action permission, a principal
\* without it neither sees the action listed in the admin nor invokes it
\* (the answer is permission denied and the callable is not run); a
\* principal with the permission, or anyone when it is not required, can do
\* both.
C24_PermissionGatesVisibilityAndInvocation ==
    \A cls \in view_response.built : GateObeyed(cls)

----------------------------------------------------------------------------
(* Properties of REST detail actions (checked under SpecRest) *)

\* C28: a REST detail action invokes the callable only on the record
\* resolved from the request URL, with the request itself, whatever fields
\* ('object', 'objects', 'request', the object argument's name) the body
\* submits.
C28_DetailActionTargetsUrlRecord ==
    detail_call.present =>
        /\ detail_call.targets = <<detail_call.pk>>
        /\ detail_call.request = "request"

====
